---- MODULE Spec2Model ----
(***************************************************************************)
(* A model of the two pieces of control flow of the repository:            *)
(*   - src/5_langgraph.py: the essay evaluation workflow (three dimension  *)
(*     evaluations fanned out from START and joined in final_evaluation),  *)
(*     with its score extraction and its mean;                             *)
(*   - src/chatbot2.0/langgraph_backend.py: chat_stream, the generator     *)
(*     that normalizes a streaming response and falls back to a            *)
(*     non-streaming call.                                                 *)
(* Texts are sequences of one-character strings, so that the regular       *)
(* expression of the score extraction is computed character by character.  *)
(***************************************************************************)
EXTENDS Integers, Sequences, FiniteSets, TLC

VARIABLES
    \* ---- essay workflow (src/5_langgraph.py)
    state,        \* the UPSCState channels: a function whose DOMAIN is the keys that are set
    tasks,        \* node -> "idle" | "ready" | "running" | "done" (within the current superstep)
    inputs,       \* node -> the state a running node was handed when it started
    writes,       \* node -> the dict the node returned (applied at the end of the superstep)
    wf,           \* "running" | "done" | "failed": workflow.invoke
    execCount,    \* node -> how many times the node function has run (history)
    chanWrites,   \* key -> how many times the channel has been written (history)
    taskOrder,    \* the order in which a superstep's writes are applied (fixed per run)
    completed,    \* the nodes that have returned, in the order they did (history)
    mainpc,       \* position of the __main__ block
    \* ---- chat_stream (src/chatbot2.0/langgraph_backend.py)
    llm,            \* the client: [present, methods], methods the candidate names it has
    invoke_kwargs,  \* the keyword arguments chat_stream was called with (a dict)
    cpc,            \* position in chat_stream: "start" | "call" | "iter" | "yield" | "probe" | "done" | "raised"
                    \* (and of the backend module: "import" | "ready" | "aborted")
    strat,          \* the strategy in hand: "none" | "s1" | "cand" | "candr" | "s3" ("sync": chat_sync)
    kw,             \* the local invoke_kwargs of _invoke_with_kw_retry
    depth,          \* recursion depth of _invoke_with_kw_retry
    cand,           \* index of the candidate method of the for loop
    it,             \* the iterator in hand: [mode, items, n]
    piece,          \* <<the element pulled and not yet yielded>>, or <<>>
    emitted,        \* the chunks the consumer has received, in order (history)
    received,       \* the elements pulled from the response iterators (history)
    produced,       \* the elements the transport's responses have delivered (history)
    calls,          \* the calls made on the client, in order (history)
    \* ---- start-up of the backend module and chat_sync
    warnings,       \* the warnings logged at import
    result,         \* how chat_sync ended: [kind, type, text], kind "none" | "return" | "raise"
    \* ---- the chat frontend (src/chatbot2.0/streamlit_frontend.py)
    session_state,  \* st.session_state: message_history, thread_id, chat_history, last_stream_error
    file,           \* CHAT_FILE: [exists, text]
    fpc,            \* position in the script: "off" | "idle" | "stream" | "finalize"
    user_input,     \* the text submitted
    full_text,      \* the text accumulated from the chunks
    stream_error,   \* <<>> for None, <<text>> otherwise
    assistant_meta, \* <<>> for None, <<dict>> otherwise
    outcome,        \* what the request in hand has done so far (history)
    \* ---- pure-function harness
    arg,          \* the input drawn for the function under study
    ret           \* its result, once applied

essayVars == <<state, tasks, inputs, writes, wf, execCount, chanWrites, taskOrder, completed,
              mainpc>>
chatVars == <<llm, invoke_kwargs, cpc, strat, kw, depth, cand, it, piece, emitted, received,
              produced, calls>>
syncVars == <<warnings, result>>
frontVars == <<session_state, file, fpc, user_input, full_text, stream_error, assistant_meta,
               outcome>>
pureVars == <<arg, ret>>
vars == <<state, tasks, inputs, writes, wf, execCount, chanWrites, taskOrder,
          completed, mainpc,
          llm, invoke_kwargs, cpc, strat, kw, depth, cand, it, piece, emitted, received,
          produced, calls, warnings, result, session_state, file, fpc, user_input, full_text,
          stream_error, assistant_meta, outcome, arg, ret>>

-----------------------------------------------------------------------------
(* Texts *)

Str_Score == <<"S", "c", "o", "r", "e", ":">>
Str_score == <<"s", "c", "o", "r", "e", ":">>
Str_SCORE == <<"S", "C", "O", "R", "E", ":">>
Str_Slash10 == <<"/", "1", "0">>

UpperLetters == <<"A", "B", "C", "D", "E", "F", "G", "H", "I", "J", "K", "L", "M",
                  "N", "O", "P", "Q", "R", "S", "T", "U", "V", "W", "X", "Y", "Z">>
LowerLetters == <<"a", "b", "c", "d", "e", "f", "g", "h", "i", "j", "k", "l", "m",
                  "n", "o", "p", "q", "r", "s", "t", "u", "v", "w", "x", "y", "z">>
DigitChars == <<"0", "1", "2", "3", "4", "5", "6", "7", "8", "9">>

\* re.IGNORECASE compares letters by their lower-case form
Lower(c) ==
    IF \E i \in DOMAIN UpperLetters : UpperLetters[i] = c
    THEN LowerLetters[CHOOSE i \in DOMAIN UpperLetters : UpperLetters[i] = c]
    ELSE c

\* \s and \d of the pattern, on the ASCII characters of the model
IsSpace(c) == c \in {" ", "\n", "\t"}
IsDigit(c) == \E i \in DOMAIN DigitChars : DigitChars[i] = c
DigitVal(c) == (CHOOSE i \in DOMAIN DigitChars : DigitChars[i] = c) - 1

\* the literal lit stands in text at position i, letters compared without case
LitAt(text, i, lit) ==
    /\ i >= 1
    /\ i + Len(lit) - 1 <= Len(text)
    /\ \A k \in 1..Len(lit) : Lower(text[i + k - 1]) = Lower(lit[k])

RECURSIVE SpaceRun(_, _)
SpaceRun(text, i) ==
    IF i <= Len(text) /\ IsSpace(text[i]) THEN 1 + SpaceRun(text, i + 1) ELSE 0

RECURSIVE DigitRun(_, _)
DigitRun(text, i) ==
    IF i <= Len(text) /\ IsDigit(text[i]) THEN 1 + DigitRun(text, i + 1) ELSE 0

\* int(s) for a string of decimal digits
RECURSIVE ParseInt(_)
ParseInt(ds) ==
    IF ds = <<>> THEN 0
    ELSE ParseInt(SubSeq(ds, 1, Len(ds) - 1)) * 10 + DigitVal(ds[Len(ds)])

-----------------------------------------------------------------------------
(* Score extraction: evaluate_essay_dimension, src/5_langgraph.py:71-83 *)

DefaultScore == 5

\* The ways  \s*(\d+)/10  can match after "Score:" at position i: w blanks, d digits
ScoreTails(text, i) ==
    { wd \in (0..SpaceRun(text, i + Len(Str_Score))) \X (1..Len(text)) :
        /\ wd[2] <= DigitRun(text, i + Len(Str_Score) + wd[1])
        /\ LitAt(text, i + Len(Str_Score) + wd[1] + wd[2], Str_Slash10) }

\* The regular expression  Score:\s*(\d+)/10  with re.IGNORECASE matches at position i
ScoreMatchAt(text, i) == LitAt(text, i, Str_Score) /\ ScoreTails(text, i) # {}

\* group(1) of the match at i: both quantifiers are greedy, the engine gives up
\* blanks, then digits, only when the rest cannot match
ScoreGroup1(text, i) ==
    LET tails == ScoreTails(text, i)
        best == CHOOSE wd \in tails :
                    \A o \in tails : \/ o[1] < wd[1]
                                     \/ (o[1] = wd[1] /\ o[2] <= wd[2])
        from == i + Len(Str_Score) + best[1]
    IN  SubSeq(text, from, from + best[2] - 1)

\* a bug: re.match instead of re.search, the pattern is tried at the start only
ScoreSearchAnchored(content) ==
    IF ScoreMatchAt(content, 1) THEN <<ScoreGroup1(content, 1)>> ELSE <<>>

\* re.search(r"Score:\s*(\d+)/10", content, re.IGNORECASE): <<>> for None,
\* <<group(1)>> for the leftmost match
ScoreSearch(content) ==
    LET hits == { i \in 1..Len(content) : ScoreMatchAt(content, i) }
    IN  IF hits = {} THEN <<>>
        ELSE <<ScoreGroup1(content, CHOOSE i \in hits : \A j \in hits : i <= j)>>

\* evaluate_essay_dimension, for the content of the model's response:
\* (content, score), the score defaulting to 5
evaluate_essay_dimension(content) ==
    LET score_match == ScoreSearch(content)
    IN  <<content, IF score_match # <<>> THEN ParseInt(score_match[1]) ELSE DefaultScore>>

-----------------------------------------------------------------------------
(* The node functions, src/5_langgraph.py:86-115 *)

Get(st, key, default) == IF key \in DOMAIN st THEN st[key] ELSE default

RECURSIVE Sum(_)
Sum(s) == IF s = <<>> THEN 0 ELSE s[1] + Sum(Tail(s))

RECURSIVE Gcd(_, _)
Gcd(a, b) == IF b = 0 THEN a ELSE Gcd(b, a % b)

\* a bug: floor division, sum(scores) // len(scores)
FloorDiv(a, b) == <<a \div b, 1>>

\* a / b of two naturals, b > 0: the quotient as a fraction in lowest terms
\* <<numerator, denominator>> (the float of the code, without its rounding)
TrueDiv(a, b) == <<a \div Gcd(a, b), b \div Gcd(a, b)>>

\* 0.0
ZeroFloat == <<0, 1>>

evaluate_language(content) ==
    LET r == evaluate_essay_dimension(content)
    IN  [language_feedback |-> r[1], individual_scores |-> <<r[2]>>]

evaluate_analysis(content) ==
    LET r == evaluate_essay_dimension(content)
    IN  [analysis_feedback |-> r[1], individual_scores |-> <<r[2]>>]

evaluate_thought(content) ==
    LET r == evaluate_essay_dimension(content)
    IN  [clarity_feedback |-> r[1], individual_scores |-> <<r[2]>>]

\* final_evaluation, for the content of the model's summary
final_evaluation(st, overall) ==
    LET scores == Get(st, "individual_scores", <<>>)
        avg == IF scores # <<>> THEN TrueDiv(Sum(scores), Len(scores)) ELSE ZeroFloat
    IN  [overall_feedback |-> overall, avg_score |-> avg]

-----------------------------------------------------------------------------
(* The graph and its execution, src/5_langgraph.py:118-134.  workflow.invoke *)
(* runs the graph in supersteps: the nodes triggered by the previous step    *)
(* run on the state as it was when the step began, in any interleaving;     *)
(* what they return is merged into the state when all of them have          *)
(* returned, and the nodes their edges lead to make up the next step.       *)

Nodes == {"evaluate_language", "evaluate_analysis", "evaluate_thought", "final_evaluation"}
Dimensions == {"evaluate_language", "evaluate_analysis", "evaluate_thought"}

\* a wiring bug: final_evaluation also hangs on START
EdgesFromStart ==
    { <<"START", "evaluate_language">>, <<"START", "evaluate_analysis">>,
      <<"START", "evaluate_thought">>, <<"START", "final_evaluation">>,
      <<"evaluate_language", "final_evaluation">>,
      <<"evaluate_analysis", "final_evaluation">>,
      <<"evaluate_thought", "final_evaluation">>,
      <<"final_evaluation", "END">> }

\* a wiring bug: one branch is a step longer than the others
EdgesChained ==
    { <<"START", "evaluate_language">>, <<"START", "evaluate_analysis">>,
      <<"evaluate_analysis", "evaluate_thought">>,
      <<"evaluate_language", "final_evaluation">>,
      <<"evaluate_analysis", "final_evaluation">>,
      <<"evaluate_thought", "final_evaluation">>,
      <<"final_evaluation", "END">> }

\* graph.add_edge: fan-out from START, join in final_evaluation
Edges ==
    { <<"START", "evaluate_language">>, <<"START", "evaluate_analysis">>,
      <<"START", "evaluate_thought">>,
      <<"evaluate_language", "final_evaluation">>,
      <<"evaluate_analysis", "final_evaluation">>,
      <<"evaluate_thought", "final_evaluation">>,
      <<"final_evaluation", "END">> }

Successors(done) == { n \in Nodes : \E m \in done : <<m, n>> \in Edges }

\* UPSCState: individual_scores is Annotated[List[int], operator.add], every
\* other key keeps the last value written
MergeUpdate(st, upd) ==
    [k \in DOMAIN st \cup DOMAIN upd |->
        IF k \notin DOMAIN upd THEN st[k]
        ELSE IF k = "individual_scores" THEN Get(st, k, <<>>) \o upd[k]
        ELSE upd[k]]

RECURSIVE MergeInTurn(_, _, _)
MergeInTurn(st, turn, w) ==
    IF turn = <<>> THEN st ELSE MergeInTurn(MergeUpdate(st, w[turn[1]]), Tail(turn), w)

\* a bug: the updates are merged as the nodes return
MergeAllAsCompleted(st, order, done, w) ==
    MergeInTurn(st, SelectSeq(completed, LAMBDA n : n \in done), w)

\* the updates of the nodes of order that are in done, merged in that order
RECURSIVE MergeAll(_, _, _, _)
MergeAll(st, order, done, w) ==
    IF order = <<>> THEN st
    ELSE MergeAll(IF order[1] \in done THEN MergeUpdate(st, w[order[1]]) ELSE st,
                  Tail(order), done, w)

EmptyState == [k \in {} |-> <<>>]
NoUpdate == [n \in Nodes |-> <<>>]
NoInput == [n \in Nodes |-> <<>>]
AllIdle == [n \in Nodes |-> "idle"]
StateKeys == {"essay", "language_feedback", "analysis_feedback", "clarity_feedback",
              "overall_feedback", "individual_scores", "avg_score"}

\* what the model may answer to a dimension prompt, and to the summary prompt
Essays == { <<"I", "n", "d", "i", "a">>, <<"A", "I">> }
Responses ==
    { <<"o", "k">>,
      <<"G", "o", "o", "d", ".", "\n">> \o Str_Score \o <<" ", "7">> \o Str_Slash10,
      Str_SCORE \o <<"1", "0">> \o Str_Slash10,
      Str_score \o <<" ", "1", "5">> \o Str_Slash10 }
Summaries == { <<"f", "a", "i", "r">>, <<>> }

\* the orders in which a superstep's writes may be applied: one per run
TaskOrders ==
    { o \o <<"final_evaluation">> :
        o \in { p \in [1..3 -> Dimensions] : \A n \in Dimensions : \E i \in 1..3 : p[i] = n } }

InitEssay ==
    /\ state = EmptyState
    /\ tasks = AllIdle
    /\ inputs = NoInput
    /\ writes = NoUpdate
    /\ wf = "idle"
    /\ execCount = [n \in Nodes |-> 0]
    /\ chanWrites = [k \in StateKeys |-> 0]
    /\ taskOrder \in TaskOrders
    /\ completed = <<>>
    /\ mainpc = "start"

-----------------------------------------------------------------------------
(* Actions of the essay workflow *)

\* workflow.invoke({"essay": essay2}): the input is written and the nodes
\* START leads to are scheduled
MainInvoke ==
    /\ mainpc = "start"
    /\ \E e \in Essays : state' = MergeUpdate(state, [essay |-> e])
    /\ tasks' = [n \in Nodes |-> IF n \in Successors({"START"}) THEN "ready" ELSE "idle"]
    /\ wf' = "running"
    /\ chanWrites' = [chanWrites EXCEPT !["essay"] = @ + 1]
    /\ mainpc' = "invoke"
    /\ UNCHANGED <<inputs, writes, execCount, taskOrder, completed>>

\* a scheduled node starts on the state of the beginning of the superstep
Begin(n) ==
    /\ wf = "running"
    /\ tasks[n] = "ready"
    /\ tasks' = [tasks EXCEPT ![n] = "running"]
    /\ inputs' = [inputs EXCEPT ![n] = state]
    /\ UNCHANGED <<state, writes, wf, execCount, chanWrites, taskOrder, completed, mainpc>>

\* a running node returns its update
Return(n, update) ==
    /\ wf = "running"
    /\ tasks[n] = "running"
    /\ tasks' = [tasks EXCEPT ![n] = "done"]
    /\ writes' = [writes EXCEPT ![n] = update]
    /\ execCount' = [execCount EXCEPT ![n] = @ + 1]
    /\ completed' = Append(completed, n)
    /\ UNCHANGED <<state, inputs, wf, chanWrites, taskOrder, mainpc>>

RunLanguage == \E c \in Responses : Return("evaluate_language", evaluate_language(c))
RunAnalysis == \E c \in Responses : Return("evaluate_analysis", evaluate_analysis(c))
RunThought == \E c \in Responses : Return("evaluate_thought", evaluate_thought(c))
RunFinal ==
    \E o \in Summaries :
        Return("final_evaluation", final_evaluation(inputs["final_evaluation"], o))

\* model.invoke raises inside a node: workflow.invoke raises
ModelRaises(n) ==
    /\ wf = "running"
    /\ tasks[n] = "running"
    /\ tasks' = [tasks EXCEPT ![n] = "failed"]
    /\ wf' = "failed"
    /\ UNCHANGED <<state, inputs, writes, execCount, chanWrites, taskOrder, completed, mainpc>>

\* the end of a superstep: every node of the step has returned
ApplyWrites ==
    LET done == { n \in Nodes : tasks[n] = "done" }
        next == Successors(done)
    IN  /\ wf = "running"
        /\ done # {}
        /\ \A n \in Nodes : tasks[n] \in {"idle", "done"}
        /\ state' = MergeAll(state, taskOrder, done, writes)
        /\ chanWrites' = [k \in StateKeys |->
               chanWrites[k] + Cardinality({ n \in done : k \in DOMAIN writes[n] })]
        /\ tasks' = [n \in Nodes |-> IF n \in next THEN "ready" ELSE "idle"]
        /\ wf' = IF next = {} THEN "done" ELSE "running"
        /\ writes' = NoUpdate
        /\ UNCHANGED <<inputs, execCount, taskOrder, completed, mainpc>>

\* __main__: the result is printed
MainPrintResults ==
    /\ mainpc = "invoke"
    /\ wf = "done"
    /\ mainpc' = "printed"
    /\ UNCHANGED <<state, tasks, inputs, writes, wf, execCount, chanWrites, taskOrder, completed>>

\* a bug: finally instead of except, the combined request is made whatever
\* the outcome of workflow.invoke
MainFallbackAlways ==
    /\ mainpc = "invoke"
    /\ wf \in {"failed", "done"}
    /\ \E ok \in BOOLEAN : mainpc' = IF ok THEN "fallback_printed" ELSE "raised"
    /\ UNCHANGED <<state, tasks, inputs, writes, wf, execCount, chanWrites, taskOrder, completed>>

\* __main__: except Exception, one combined request, which may raise in turn
MainFallback ==
    /\ mainpc = "invoke"
    /\ wf = "failed"
    /\ \E ok \in BOOLEAN : mainpc' = IF ok THEN "fallback_printed" ELSE "raised"
    /\ UNCHANGED <<state, tasks, inputs, writes, wf, execCount, chanWrites, taskOrder, completed>>

-----------------------------------------------------------------------------
(* The normalizer of response pieces, src/chatbot2.0/langgraph_backend.py:54-169. *)
(* A piece is a record  [kind, text, items, shape]:                              *)
(*   kind "none"  None;                                                         *)
(*   kind "str"   a string, text its characters;                                *)
(*   kind "map"   a Mapping, items its <<key, value>> pairs in order;           *)
(*   kind "obj"   any other object, items its attributes (vars) in order and    *)
(*                text its str().                                               *)
(* shape tells what _iter_from_stream_response sees: "iterable" (__iter__),     *)
(* "stream" (a callable .stream), "plain" (neither).                            *)

STRUCTURED_PREFIX == <<"[", "_", "_", "S", "T", "R", "U", "C", "T", "U", "R", "E", "D", "_", "_", "]">>
STREAM_ERROR_PREFIX == <<"[", "_", "_", "S", "T", "R", "E", "A", "M", "_", "E", "R", "R", "O", "R", "_", "_", "]">>
\* the character U+0060, which a TLA+ string cannot hold
Backquote == "BACKQUOTE"
Fence == <<Backquote, Backquote, Backquote>>
Newline == <<"\n">>

K_content == <<"c", "o", "n", "t", "e", "n", "t">>
K_additional_kwargs == <<"a", "d", "d", "i", "t", "i", "o", "n", "a", "l", "_", "k", "w", "a", "r", "g", "s">>
K_response_metadata == <<"r", "e", "s", "p", "o", "n", "s", "e", "_", "m", "e", "t", "a", "d", "a", "t", "a">>
K_type == <<"t", "y", "p", "e">>
K_id == <<"i", "d">>
K_name == <<"n", "a", "m", "e">>
K_text == <<"t", "e", "x", "t">>
K_message == <<"m", "e", "s", "s", "a", "g", "e">>

None == [kind |-> "none", text |-> <<>>, items |-> <<>>, shape |-> "plain"]
PyStr(t) == [kind |-> "str", text |-> t, items |-> <<>>, shape |-> "plain"]
PyDict(kvs) == [kind |-> "map", text |-> <<>>, items |-> kvs, shape |-> "plain"]
\* a list, items its elements; a float, text its repr
PyList(xs) == [kind |-> "list", text |-> <<>>, items |-> xs, shape |-> "iterable"]
PyFloat(repr) == [kind |-> "float", text |-> repr, items |-> <<>>, shape |-> "plain"]
PyInt(repr) == [kind |-> "int", text |-> repr, items |-> <<>>, shape |-> "plain"]
PyObj(attrs, str, shape) == [kind |-> "obj", text |-> str, items |-> attrs, shape |-> shape]

\* sub in text
Contains(text, sub) ==
    \E i \in 1..(Len(text) - Len(sub) + 1) : SubSeq(text, i, i + Len(sub) - 1) = sub

Keys(kvs) == { kvs[i][1] : i \in DOMAIN kvs }
Lookup(kvs, k) == kvs[CHOOSE i \in DOMAIN kvs : kvs[i][1] = k][2]

SdkKeys == {K_content, K_additional_kwargs, K_response_metadata}

\* a bug: only content is looked for
LooksLikeContent(obj) ==
    /\ obj["kind"] \in {"map", "obj"}
    /\ K_content \in Keys(obj["items"])

\* _looks_like_sdk_response: a mapping with one of the three keys, an object
\* with one of the three attributes
looks_like_sdk_response(obj) ==
    /\ obj["kind"] \in {"map", "obj"}
    /\ Keys(obj["items"]) \cap SdkKeys # {}

\* _is_code_block: the keywords
code_keywords ==
    << <<"d", "e", "f", " ">>, <<"c", "l", "a", "s", "s", " ">>, <<"i", "m", "p", "o", "r", "t", " ">>, <<"f", "r", "o", "m", " ">>, <<"i", "f", " ">>,
       <<"f", "o", "r", " ">>, <<"w", "h", "i", "l", "e", " ">>, <<"t", "r", "y", " ">>, <<"e", "x", "c", "e", "p", "t", " ">>, <<"r", "e", "t", "u", "r", "n", " ">> >>
\* a bug: the keywords are not looked for
IsCodeBlockNoKeywords(text) == Contains(text, Newline) /\ Contains(text, Fence)

is_code_block(text) ==
    \/ \E i \in DOMAIN code_keywords : Contains(text, code_keywords[i])
    \/ (Contains(text, Newline) /\ Contains(text, Fence))

Fenced(text) == Fence \o Newline \o text \o Newline \o Fence

\* json.dumps of a string: quoted, with the quote, the backslash and the
\* newline escaped
JsonEscaped == {"\"", "\\", "\n"}

RECURSIVE JsonEscape(_)
JsonEscape(t) ==
    LET k == CHOOSE i \in DOMAIN t :
                 t[i] \in JsonEscaped /\ \A j \in 1..(i - 1) : t[j] \notin JsonEscaped
    IN  IF \A i \in DOMAIN t : t[i] \notin JsonEscaped THEN t
        ELSE SubSeq(t, 1, k - 1)
             \o (CASE t[k] = "\"" -> <<"\\", "\"">>
                   [] t[k] = "\\" -> <<"\\", "\\">>
                   [] t[k] = "\n" -> <<"\\", "n">>)
             \o JsonEscape(SubSeq(t, k + 1, Len(t)))

JsonString(t) == <<"\"">> \o JsonEscape(t) \o <<"\"">>

\* _to_primitive followed by json.dumps, for the values of the model: None,
\* strings, and mappings or objects (through vars) of those
RECURSIVE JsonValue(_, _)
RECURSIVE JsonMembers(_, _, _)
RECURSIVE JsonElements(_, _, _)
JsonElements(xs, sep, level) ==
    IF xs = <<>> THEN <<>>
    ELSE JsonValue(xs[1], level)
         \o (IF Len(xs) > 1 THEN sep \o JsonElements(Tail(xs), sep, level) ELSE <<>>)

JsonMembers(kvs, sep, level) ==
    IF kvs = <<>> THEN <<>>
    ELSE JsonString(kvs[1][1]) \o <<":", " ">> \o JsonValue(kvs[1][2], level)
         \o (IF Len(kvs) > 1 THEN sep \o JsonMembers(Tail(kvs), sep, level) ELSE <<>>)

Spaces(n) == [i \in 1..n |-> " "]

\* level 0: json.dumps(x), one line; level d > 0: json.dumps(x, indent=2) at
\* nesting level d
JsonValue(v, level) ==
    CASE v["kind"] = "none" -> <<"n", "u", "l", "l">>
      [] v["kind"] = "str" -> JsonString(v["text"])
      [] v["kind"] \in {"float", "int"} -> v["text"]
      [] v["kind"] = "list" ->
           IF v["items"] = <<>> THEN <<"[", "]">>
           ELSE IF level = 0
           THEN <<"[">> \o JsonElements(v["items"], <<",", " ">>, 0) \o <<"]">>
           ELSE <<"[">> \o Newline \o Spaces(2 * level)
                \o JsonElements(v["items"], <<",">> \o Newline \o Spaces(2 * level), level + 1)
                \o Newline \o Spaces(2 * (level - 1)) \o <<"]">>
      [] OTHER ->
           IF v["items"] = <<>> THEN <<"{", "}">>
           ELSE IF level = 0
           THEN <<"{">> \o JsonMembers(v["items"], <<",", " ">>, 0) \o <<"}">>
           ELSE <<"{">> \o Newline \o Spaces(2 * level)
                \o JsonMembers(v["items"], <<",">> \o Newline \o Spaces(2 * level), level + 1)
                \o Newline \o Spaces(2 * (level - 1)) \o <<"}">>

\* the payload of a structured piece: the priority keys that are there, in
\* their fixed order, then every other key in the order of the piece
PriorityKeys == <<K_content, K_additional_kwargs, K_response_metadata, K_type, K_id, K_name>>
Payload(kvs) ==
    LET Has(k) == k \in Keys(kvs)
        first == SelectSeq(PriorityKeys, Has)
        IsRest(kv) == \A i \in DOMAIN PriorityKeys : PriorityKeys[i] # kv[1]
    IN  [i \in 1..Len(first) |-> <<first[i], Lookup(kvs, first[i])>>] \o SelectSeq(kvs, IsRest)

\* repr(v) and str(v) of a value: a string is quoted by repr, a dict is
\* written with the repr of its keys and values, an object as its own str()
RECURSIVE PyRepr(_)
RECURSIVE PyReprMembers(_)
PyReprMembers(kvs) ==
    IF kvs = <<>> THEN <<>>
    ELSE <<"'">> \o kvs[1][1] \o <<"'", ":", " ">> \o PyRepr(kvs[1][2])
         \o (IF Len(kvs) > 1 THEN <<",", " ">> \o PyReprMembers(Tail(kvs)) ELSE <<>>)

PyRepr(v) ==
    CASE v["kind"] = "none" -> <<"N", "o", "n", "e">>
      [] v["kind"] = "str" -> <<"'">> \o v["text"] \o <<"'">>
      [] v["kind"] = "map" -> <<"{">> \o PyReprMembers(v["items"]) \o <<"}">>
      [] OTHER -> v["text"]

PyStrOf(v) == IF v["kind"] = "str" THEN v["text"] ELSE PyRepr(v)

\* the text of a string value found on an object, or str(item)
CodeOrPlain(text) == IF is_code_block(text) THEN Fenced(text) ELSE text

\* _safe_extract_text
safe_extract_text(item) ==
    CASE item["kind"] = "none" -> <<>>
      [] item["kind"] = "str" ->
           IF Contains(item["text"], Fence) THEN item["text"]
           ELSE IF is_code_block(item["text"]) THEN Fenced(item["text"])
           ELSE item["text"]
      [] item["kind"] = "map" ->
           IF looks_like_sdk_response(item)
           THEN STRUCTURED_PREFIX \o JsonValue(PyDict(Payload(item["items"])), 0)
           ELSE JsonValue(item, 1)
      [] OTHER ->
           IF looks_like_sdk_response(item)
           THEN STRUCTURED_PREFIX \o JsonValue(PyDict(Payload(item["items"])), 0)
           ELSE LET Named(kv) == kv[1] \in {K_text, K_message} /\ kv[2]["kind"] # "none"
                    found == SelectSeq(<<K_text, K_message>>,
                                 LAMBDA k : \E i \in DOMAIN item["items"] :
                                     item["items"][i][1] = k /\ Named(item["items"][i]))
                IN  IF found = <<>> THEN CodeOrPlain(item["text"])
                    ELSE LET val == Lookup(item["items"], found[1])
                         IN  IF val["kind"] = "str" THEN CodeOrPlain(val["text"])
                             ELSE PyStrOf(val)

-----------------------------------------------------------------------------
(* json.load, for the texts json.dump writes: objects, arrays, strings with  *)
(* the escapes of JsonEscape, numbers, null.  A parse is a record            *)
(* [ok, val, pos]: whether it succeeded, the value, the position after it.   *)

ParseFail == [ok |-> FALSE, val |-> None, pos |-> 0]
ParseOk(v, p) == [ok |-> TRUE, val |-> v, pos |-> p]

JsonWhitespace == {" ", "\n", "\t", "\r"}
NumberSigns == {"-", "+", ".", "e", "E"}

\* the first position from i on that holds no whitespace
RECURSIVE SkipWs(_, _)
SkipWs(t, i) == IF i <= Len(t) /\ t[i] \in JsonWhitespace THEN SkipWs(t, i + 1) ELSE i

\* the characters of a string from position i up to its closing quote; a
\* control character or an unknown escape is an error
StringStops == {"\"", "\\", "\n", "\t", "\r"}

RECURSIVE ParseChars(_, _)
ParseChars(t, i) ==
    LET k == CHOOSE j \in i..(Len(t) + 1) :
                 /\ j > Len(t) \/ t[j] \in StringStops
                 /\ \A h \in i..(j - 1) : t[h] \notin StringStops
        run == SubSeq(t, i, k - 1)
    IN  IF k > Len(t) THEN ParseFail
        ELSE IF t[k] = "\"" THEN ParseOk(run, k + 1)
        ELSE IF t[k] \in {"\n", "\t", "\r"} THEN ParseFail
        ELSE IF k + 1 > Len(t) \/ t[k + 1] \notin {"\"", "\\", "n"} THEN ParseFail
        ELSE LET rest == ParseChars(t, k + 2)
                 c == IF t[k + 1] = "n" THEN "\n" ELSE t[k + 1]
             IN  IF rest["ok"] THEN ParseOk(run \o <<c>> \o rest["val"], rest["pos"])
                 ELSE ParseFail

RECURSIVE NumberRun(_, _)
NumberRun(t, i) ==
    IF i <= Len(t) /\ (IsDigit(t[i]) \/ t[i] \in NumberSigns) THEN 1 + NumberRun(t, i + 1) ELSE 0

\* a number: a float when it has a fraction or an exponent, an int otherwise
ParseNumber(t, i) ==
    LET n == NumberRun(t, i)
        run == SubSeq(t, i, i + n - 1)
    IN  IF n = 0 \/ ~IsDigit(run[n]) THEN ParseFail
        ELSE IF \E k \in 1..n : run[k] \in {".", "e", "E"} THEN ParseOk(PyFloat(run), i + n)
        ELSE ParseOk(PyInt(run), i + n)

\* d[k] = v: the value of an existing key is replaced, a new key is added last
DictSet(kvs, k, v) ==
    IF \E i \in DOMAIN kvs : kvs[i][1] = k
    THEN [i \in DOMAIN kvs |-> IF kvs[i][1] = k THEN <<k, v>> ELSE kvs[i]]
    ELSE Append(kvs, <<k, v>>)

RECURSIVE ParseValue(_, _)
RECURSIVE ParseMembers(_, _, _)
RECURSIVE ParseElements(_, _, _)

\* the members of an object from position i, after those of acc
ParseMembers(t, i, acc) ==
    LET k == SkipWs(t, i)
    IN  IF k > Len(t) \/ t[k] # "\"" THEN ParseFail
        ELSE LET key == ParseChars(t, k + 1)
                 colon == SkipWs(t, key["pos"])
             IN  IF ~key["ok"] \/ colon > Len(t) \/ t[colon] # ":" THEN ParseFail
                 ELSE LET v == ParseValue(t, colon + 1)
                          e == SkipWs(t, v["pos"])
                      IN  IF ~v["ok"] \/ e > Len(t) THEN ParseFail
                          ELSE IF t[e] = "," THEN ParseMembers(t, e + 1, DictSet(acc, key["val"], v["val"]))
                          ELSE IF t[e] = "}" THEN ParseOk(PyDict(DictSet(acc, key["val"], v["val"])), e + 1)
                          ELSE ParseFail

\* the elements of an array from position i, after those of acc
ParseElements(t, i, acc) ==
    LET v == ParseValue(t, i)
        e == SkipWs(t, v["pos"])
    IN  IF ~v["ok"] \/ e > Len(t) THEN ParseFail
        ELSE IF t[e] = "," THEN ParseElements(t, e + 1, Append(acc, v["val"]))
        ELSE IF t[e] = "]" THEN ParseOk(PyList(Append(acc, v["val"])), e + 1)
        ELSE ParseFail

ParseValue(t, i0) ==
    LET i == SkipWs(t, i0)
    IN  IF i > Len(t) THEN ParseFail
        ELSE IF t[i] = "\""
        THEN LET r == ParseChars(t, i + 1)
             IN  IF r["ok"] THEN ParseOk(PyStr(r["val"]), r["pos"]) ELSE ParseFail
        ELSE IF t[i] = "{"
        THEN LET k == SkipWs(t, i + 1)
             IN  IF k <= Len(t) /\ t[k] = "}" THEN ParseOk(PyDict(<<>>), k + 1)
                 ELSE ParseMembers(t, i + 1, <<>>)
        ELSE IF t[i] = "["
        THEN LET k == SkipWs(t, i + 1)
             IN  IF k <= Len(t) /\ t[k] = "]" THEN ParseOk(PyList(<<>>), k + 1)
                 ELSE ParseElements(t, i + 1, <<>>)
        ELSE IF i + 3 <= Len(t) /\ SubSeq(t, i, i + 3) = <<"n", "u", "l", "l">>
        THEN ParseOk(None, i + 4)
        ELSE ParseNumber(t, i)

\* json.loads(text): <<value>>, or <<>> when it raises
json_loads(text) ==
    LET r == ParseValue(text, 1)
    IN  IF r["ok"] /\ SkipWs(text, r["pos"]) > Len(text) THEN <<r["val"]>> ELSE <<>>

-----------------------------------------------------------------------------
(* The chat history file, src/chatbot2.0/streamlit_frontend.py:196-212.  The  *)
(* chat history is a dict from thread id to a record of title, messages and  *)
(* timestamp; a file is a record [exists, text].                             *)

K_title == <<"t", "i", "t", "l", "e">>
K_messages == <<"m", "e", "s", "s", "a", "g", "e", "s">>
K_timestamp == <<"t", "i", "m", "e", "s", "t", "a", "m", "p">>
K_role == <<"r", "o", "l", "e">>
K_ts == <<"t", "s">>
K_meta == <<"m", "e", "t", "a">>
Str_user == <<"u", "s", "e", "r">>
Str_assistant == <<"a", "s", "s", "i", "s", "t", "a", "n", "t">>

\* {"role": ..., "content": ..., "ts": ...}, and the same with "meta"
Message(role, content, ts) ==
    PyDict(<< <<K_role, PyStr(role)>>, <<K_content, PyStr(content)>>, <<K_ts, PyStr(ts)>> >>)
MessageMeta(role, content, ts, meta) ==
    PyDict(<< <<K_role, PyStr(role)>>, <<K_content, PyStr(content)>>, <<K_ts, PyStr(ts)>>,
              <<K_meta, meta>> >>)

\* {"title": ..., "messages": ..., "timestamp": ...}
ChatRecord(title, messages, timestamp) ==
    PyDict(<< <<K_title, PyStr(title)>>, <<K_messages, PyList(messages)>>,
              <<K_timestamp, timestamp>> >>)

Str_ts == <<"N", "o", "v", " ", "0", "1", " ", "1", "0", ":", "0", "5">>
ThreadIds == { <<"a">>, <<"b">> }
NoFile == [exists |-> FALSE, text |-> <<>>]

\* a bug: the file is opened for appending
SaveChatsAppend(f, history) ==
    [exists |-> TRUE, text |-> f["text"] \o JsonValue(history, 1)]

\* save_chats, when nothing raises: open(CHAT_FILE, "w"), json.dump(indent=2)
save_chats(f, history) == [exists |-> TRUE, text |-> JsonValue(history, 1)]

\* save_chats, when open or json.dump raises: the file is as it was, or
\* truncated, or holds the beginning of the text
SaveOutcomesOnError(f, history) ==
    LET text == JsonValue(history, 1)
    IN  { f, [exists |-> TRUE, text |-> <<>>],
          [exists |-> TRUE, text |-> SubSeq(text, 1, Len(text) \div 2)] }

\* load_chats: {} when there is no file or json.load raises
load_chats(f) ==
    LET loaded == json_loads(f["text"])
    IN  IF ~f["exists"] THEN PyDict(<<>>)
        ELSE IF loaded = <<>> THEN PyDict(<<>>)
        ELSE loaded[1]

-----------------------------------------------------------------------------
(* _invoke_with_kw_retry and _iter_from_stream_response,                       *)
(* src/chatbot2.0/langgraph_backend.py:171-201                                 *)

K_temperature == <<"t", "e", "m", "p", "e", "r", "a", "t", "u", "r", "e">>
K_stop == <<"s", "t", "o", "p">>
K_stream == <<"s", "t", "r", "e", "a", "m">>
KwNames == {K_temperature, K_stop}

\* the dicts chat_stream may be called with; the values are opaque
Dicts == UNION { [K -> {"v"}] : K \in SUBSET KwNames }

\* a bug: the keyword is not deleted
DictDelNothing(d, k) == d

\* del d[k]
DictDel(d, k) == [x \in DOMAIN d \ {k} |-> d[x]]

Str_unexpected == <<"u", "n", "e", "x", "p", "e", "c", "t", "e", "d", " ", "k", "e", "y", "w", "o", "r", "d", " ", "a", "r", "g", "u", "m", "e", "n", "t", " ", "'">>
Msg_unexpected(k) == <<"g", "o", "t", " ", "a", "n", " ">> \o Str_unexpected \o k \o <<"'">>
Msg_operand == <<"b", "a", "d", " ", "o", "p", "e", "r", "a", "n", "d">>
Msg_timeout == <<"t", "i", "m", "e", "o", "u", "t">>
Msg_not_initialized == <<"L", "L", "M", " ", "n", "o", "t", " ", "i", "n", "i", "t", "i", "a", "l", "i", "z", "e", "d", " ", "(", "C", "h", "a", "t", "G", "r", "o", "q", " ", "m", "i", "s", "s", "i", "n", "g", ")", ".">>

TypeError(msg) == [type |-> "TypeError", msg |-> msg]
OtherError(msg) == [type |-> "Exception", msg |-> msg]

RECURSIVE NonQuoteRun(_, _)
NonQuoteRun(text, i) ==
    IF i <= Len(text) /\ text[i] # "'" THEN 1 + NonQuoteRun(text, i + 1) ELSE 0

\* re.search(r"unexpected keyword argument '([^']+)'", msg): <<>> for None,
\* <<group(1)>> for the leftmost match (the second pattern of the code matches
\* only where the first does)
UnexpectedKw(msg) ==
    LET n == Len(Str_unexpected)
        Hit(i) == /\ i + n - 1 <= Len(msg)
                  /\ SubSeq(msg, i, i + n - 1) = Str_unexpected
                  /\ NonQuoteRun(msg, i + n) >= 1
                  /\ i + n + NonQuoteRun(msg, i + n) <= Len(msg)
        hits == { i \in 1..Len(msg) : Hit(i) }
        first == CHOOSE i \in hits : \A j \in hits : i <= j
    IN  IF hits = {} THEN <<>>
        ELSE <<SubSeq(msg, first + n, first + n + NonQuoteRun(msg, first + n) - 1)>>

\* a bug: the retry drops every keyword argument
KwRetryDropAll(e, kwargs) ==
    IF e["type"] = "TypeError" /\ UnexpectedKw(e["msg"]) # <<>>
       /\ UnexpectedKw(e["msg"])[1] \in DOMAIN kwargs
    THEN <<"retry", [k \in {} |-> "v"]>>
    ELSE <<"raise", kwargs>>

\* the except clauses of _invoke_with_kw_retry: <<"retry", the kwargs of the
\* retry>> or <<"raise", kwargs>>
KwRetry(e, kwargs) ==
    IF e["type"] = "TypeError" /\ UnexpectedKw(e["msg"]) # <<>>
       /\ UnexpectedKw(e["msg"])[1] \in DOMAIN kwargs
    THEN <<"retry", DictDel(kwargs, UnexpectedKw(e["msg"])[1])>>
    ELSE <<"raise", kwargs>>

\* a bug: the recursive call's result is not returned (a missing return)
RetryResultLost(resp, d) == IF d > 0 THEN None ELSE resp

\* what _invoke_with_kw_retry returns when invoke_fn returned resp at depth d
RetryResult(resp, d) == resp

NoIterator == [mode |-> "none", items |-> <<>>, n |-> 0]

\* a bug: a response that is not iterable yields nothing
IterDropsPlain(stream_resp) ==
    IF stream_resp["shape"] \in {"iterable", "stream"}
    THEN [mode |-> "live", items |-> <<>>, n |-> 0]
    ELSE [mode |-> "list", items |-> <<>>, n |-> 0]

\* _iter_from_stream_response: the iterator of an iterable response, of the
\* .stream() of a response that has one, of [stream_resp] otherwise.  A "live"
\* iterator delivers what the transport sends, a "list" one its items.
iter_from_stream_response(stream_resp) ==
    IF stream_resp["shape"] = "iterable" THEN [mode |-> "live", items |-> <<>>, n |-> 0]
    ELSE IF stream_resp["shape"] = "stream" THEN [mode |-> "live", items |-> <<>>, n |-> 0]
    ELSE [mode |-> "list", items |-> <<stream_resp>>, n |-> 0]

\* a bug: no except around the body of chat_stream
OuterExceptMissing(e) == [raises |-> TRUE, chunk |-> <<>>]

\* except Exception as e: yield f"[__STREAM_ERROR__]{str(e)}"
OuterExcept(e) == [raises |-> FALSE, chunk |-> STREAM_ERROR_PREFIX \o e["msg"]]

-----------------------------------------------------------------------------
(* The transport: what the client may do when called, and its streams *)

MaxChunks == 2

CandidateNames == <<"stream_invoke", "invoke_stream", "stream", "streaming_invoke">>
\* the clients: none, one without streaming methods, and clients with one or
\* two of the candidate methods
Clients ==
    { [present |-> FALSE, methods |-> {}],
      [present |-> TRUE, methods |-> {}],
      [present |-> TRUE, methods |-> {"stream"}],
      [present |-> TRUE, methods |-> {"invoke_stream", "stream"}] }

Str_hi == <<"h", "i">>
Str_def == <<"d", "e", "f", " ", "f">>
Generator == PyObj(<<>>, <<"<", "g", "e", "n", ">">>, "iterable")
Streamer == PyObj(<<>>, <<"<", "s", ">">>, "stream")

\* the elements a stream may deliver, the values a call may return, the
\* exceptions a call or a stream may raise
Pieces == { PyStr(Str_def), None }
Returns == { Generator, Streamer, PyStr(Str_hi) }
InvokeErrors ==
    { TypeError(Msg_unexpected(k)) : k \in KwNames \cup {K_stream} }
    \cup { TypeError(Msg_operand), OtherError(Msg_timeout) }
MethodErrors == { TypeError(Msg_unexpected(K_temperature)), OtherError(Msg_timeout) }
StreamErrors == { TypeError(Msg_operand), OtherError(Msg_timeout) }

ChatIdle ==
    /\ llm = [present |-> FALSE, methods |-> {}]
    /\ invoke_kwargs = [k \in {} |-> "v"]
    /\ cpc = "idle"
    /\ strat = "none"
    /\ kw = [k \in {} |-> "v"]
    /\ depth = 0
    /\ cand = 0
    /\ it = NoIterator
    /\ piece = <<>>
    /\ emitted = <<>>
    /\ received = <<>>
    /\ produced = <<>>
    /\ calls = <<>>

ChatCalled ==
    /\ llm \in Clients
    /\ invoke_kwargs \in Dicts
    /\ cpc = "start"
    /\ strat = "none"
    /\ kw = [k \in {} |-> "v"]
    /\ depth = 0
    /\ cand = 0
    /\ it = NoIterator
    /\ piece = <<>>
    /\ emitted = <<>>
    /\ received = <<>>
    /\ produced = <<>>
    /\ calls = <<>>

-----------------------------------------------------------------------------
(* chat_stream, src/chatbot2.0/langgraph_backend.py:205-257 *)

\* a call on the client: the strategy that made it, the method, whether
\* stream=True was passed, the keyword arguments, and how it ended ("ret",
\* "retry" for an exception _invoke_with_kw_retry retries, "raise"); for the
\* non-streaming call of strategy 3 also the message raised or the response
CallRecord(fn, stream, kwargs, out, msg, resp) ==
    [strat |-> strat, fn |-> fn, stream |-> stream, kwargs |-> kwargs, out |-> out,
     msg |-> IF strat = "s3" THEN msg ELSE <<>>,
     resp |-> IF strat = "s3" THEN resp ELSE None]

Chunk(text, src, call) == [text |-> text, src |-> src, call |-> call]

\* what a plain response delivers: itself, as the one element of [stream_resp]
Delivered(resp, call) ==
    IF resp["shape"] = "plain" THEN Append(produced, [piece |-> resp, call |-> call])
    ELSE produced

\* entry: llm is None yields the error chunk and returns
ChatStart ==
    /\ cpc = "start"
    /\ IF ~llm["present"]
       THEN /\ emitted' = Append(emitted,
                   Chunk(STREAM_ERROR_PREFIX \o Msg_not_initialized, "error", 0))
            /\ cpc' = "done"
            /\ UNCHANGED <<strat, kw, depth>>
       ELSE /\ cpc' = "call"
            /\ strat' = "s1"
            /\ kw' = invoke_kwargs
            /\ depth' = 0
            /\ UNCHANGED emitted
    /\ UNCHANGED <<llm, invoke_kwargs, cand, it, piece, received, produced, calls>>

\* invoke_fn raises inside _invoke_with_kw_retry: retry without the keyword,
\* or re-raise to chat_stream: strategy 1 goes on with the candidates,
\* strategy 3 ends in the outer except
InvokeRaises(e) ==
    /\ calls' = Append(calls,
           CallRecord("invoke", strat = "s1", kw, KwRetry(e, kw)[1], e["msg"], None))
    /\ IF KwRetry(e, kw)[1] = "retry"
       THEN /\ kw' = KwRetry(e, kw)[2]
            /\ depth' = depth + 1
            /\ UNCHANGED <<cpc, strat, cand, emitted>>
       ELSE IF strat = "s1"
       THEN /\ cpc' = "probe"
            /\ strat' = "cand"
            /\ cand' = 1
            /\ UNCHANGED <<kw, depth, emitted>>
       ELSE /\ IF OuterExcept(e)["raises"]
               THEN cpc' = "raised" /\ UNCHANGED emitted
               ELSE /\ cpc' = "done"
                    /\ emitted' = Append(emitted,
                           Chunk(OuterExcept(e)["chunk"], "error", Len(calls) + 1))
            /\ UNCHANGED <<kw, depth, strat, cand>>
    /\ UNCHANGED <<llm, invoke_kwargs, it, piece, received, produced>>

\* invoke_fn returns: strategy 1 iterates the response, strategy 3 yields it
InvokeReturns(resp) ==
    /\ calls' = Append(calls,
           CallRecord("invoke", strat = "s1", kw, "ret", <<>>, resp))
    /\ IF strat = "s1"
       THEN /\ it' = iter_from_stream_response(RetryResult(resp, depth))
            /\ cpc' = "iter"
            /\ produced' = Delivered(resp, Len(calls) + 1)
            /\ UNCHANGED piece
       ELSE /\ piece' = <<RetryResult(resp, depth)>>
            /\ cpc' = "yield"
            /\ UNCHANGED <<it, produced>>
    /\ UNCHANGED <<llm, invoke_kwargs, strat, kw, depth, cand, emitted, received>>

\* 1) _invoke_with_kw_retry(llm.invoke, messages, stream_flag=True, ...)
S1Invoke ==
    /\ cpc = "call"
    /\ strat = "s1"
    /\ \/ \E e \in InvokeErrors : InvokeRaises(e)
       \/ \E r \in Returns : InvokeReturns(r)

\* 3) _invoke_with_kw_retry(llm.invoke, messages, stream_flag=False, ...)
S3Invoke ==
    /\ cpc = "call"
    /\ strat = "s3"
    /\ \/ \E e \in InvokeErrors : InvokeRaises(e)
       \/ \E r \in Returns : InvokeReturns(r)

\* for piece in it: the next element
PullPiece ==
    /\ cpc = "iter"
    /\ \/ /\ it["mode"] = "list"
          /\ it["items"] # <<>>
          /\ piece' = <<Head(it["items"])>>
          /\ it' = [it EXCEPT !["items"] = Tail(@), !["n"] = @ + 1]
          /\ UNCHANGED produced
       \/ /\ it["mode"] = "live"
          /\ Len(received) < MaxChunks
          /\ \E p \in Pieces :
                /\ piece' = <<p>>
                /\ produced' = Append(produced, [piece |-> p, call |-> Len(calls)])
          /\ it' = [it EXCEPT !["n"] = @ + 1]
    /\ received' = Append(received, [piece |-> piece'[1], call |-> Len(calls)])
    /\ cpc' = "yield"
    /\ UNCHANGED <<llm, invoke_kwargs, strat, kw, depth, cand, emitted, calls>>

\* for piece in it: the iterator is exhausted, chat_stream returns
PullStop ==
    /\ cpc = "iter"
    /\ \/ it["mode"] = "list" /\ it["items"] = <<>>
       \/ it["mode"] = "live"
    /\ cpc' = "done"
    /\ it' = NoIterator
    /\ UNCHANGED <<llm, invoke_kwargs, strat, kw, depth, cand, piece, emitted, received,
                   produced, calls>>

\* for piece in it: the stream raises.  Strategy 1 goes on with the
\* candidates; a candidate's TypeError leads to method(messages), any other
\* exception, and any exception after method(messages), to the next candidate
PullRaises ==
    /\ cpc = "iter"
    /\ it["mode"] = "live"
    /\ \E e \in StreamErrors :
          /\ IF strat = "s1"
             THEN cpc' = "probe" /\ strat' = "cand" /\ cand' = 1
             ELSE IF strat = "cand" /\ e["type"] = "TypeError"
             THEN cpc' = "call" /\ strat' = "candr" /\ UNCHANGED cand
             ELSE cpc' = "probe" /\ strat' = "cand" /\ cand' = cand + 1
    /\ it' = NoIterator
    /\ UNCHANGED <<llm, invoke_kwargs, kw, depth, piece, emitted, received, produced, calls>>

\* yield _safe_extract_text(piece); after the chunk of strategy 3, return
Yield ==
    /\ cpc = "yield"
    /\ emitted' = Append(emitted, Chunk(safe_extract_text(piece[1]), strat, Len(calls)))
    /\ piece' = <<>>
    /\ cpc' = IF strat = "s3" THEN "done" ELSE "iter"
    /\ UNCHANGED <<llm, invoke_kwargs, strat, kw, depth, cand, it, received, produced, calls>>

\* 2) for candidate in (...): if hasattr(llm, candidate); after the last
\* candidate, strategy 3
CandProbe ==
    /\ cpc = "probe"
    /\ IF cand > Len(CandidateNames)
       THEN /\ cpc' = "call"
            /\ strat' = "s3"
            /\ kw' = invoke_kwargs
            /\ depth' = 0
            /\ UNCHANGED cand
       ELSE IF CandidateNames[cand] \in llm["methods"]
       THEN /\ cpc' = "call"
            /\ strat' = "cand"
            /\ UNCHANGED <<kw, depth, cand>>
       ELSE /\ cand' = cand + 1
            /\ UNCHANGED <<cpc, strat, kw, depth>>
    /\ UNCHANGED <<llm, invoke_kwargs, it, piece, emitted, received, produced, calls>>

\* the response of a candidate method is iterated
MethodReturns(resp, kwargs) ==
    /\ calls' = Append(calls,
           CallRecord(CandidateNames[cand], FALSE, kwargs, "ret", <<>>, resp))
    /\ it' = iter_from_stream_response(resp)
    /\ produced' = Delivered(resp, Len(calls) + 1)
    /\ cpc' = "iter"
    /\ UNCHANGED <<llm, invoke_kwargs, strat, kw, depth, cand, piece, emitted, received>>

\* method(messages, **invoke_kwargs)
CandCall ==
    /\ cpc = "call"
    /\ strat = "cand"
    /\ \/ \E e \in MethodErrors :
             /\ calls' = Append(calls,
                    CallRecord(CandidateNames[cand], FALSE, invoke_kwargs, "raise",
                               e["msg"], None))
             /\ IF e["type"] = "TypeError"
                THEN strat' = "candr" /\ UNCHANGED <<cpc, cand>>
                ELSE cpc' = "probe" /\ cand' = cand + 1 /\ UNCHANGED strat
             /\ UNCHANGED <<llm, invoke_kwargs, kw, depth, it, piece, emitted, received,
                            produced>>
       \/ \E r \in Returns : MethodReturns(r, invoke_kwargs)

\* except TypeError: method(messages)
CandRetryCall ==
    /\ cpc = "call"
    /\ strat = "candr"
    /\ \/ \E e \in MethodErrors :
             /\ calls' = Append(calls,
                    CallRecord(CandidateNames[cand], FALSE, [k \in {} |-> "v"], "raise",
                               e["msg"], None))
             /\ cpc' = "probe"
             /\ strat' = "cand"
             /\ cand' = cand + 1
             /\ UNCHANGED <<llm, invoke_kwargs, kw, depth, it, piece, emitted, received,
                            produced>>
       \/ \E r \in Returns : MethodReturns(r, [k \in {} |-> "v"])

NextChat ==
    \/ (ChatStart /\ UNCHANGED <<essayVars, syncVars, frontVars, pureVars>>)
    \/ (S1Invoke /\ UNCHANGED <<essayVars, syncVars, frontVars, pureVars>>)
    \/ (PullPiece /\ UNCHANGED <<essayVars, syncVars, frontVars, pureVars>>)
    \/ (PullStop /\ UNCHANGED <<essayVars, syncVars, frontVars, pureVars>>)
    \/ (PullRaises /\ UNCHANGED <<essayVars, syncVars, frontVars, pureVars>>)
    \/ (Yield /\ UNCHANGED <<essayVars, syncVars, frontVars, pureVars>>)
    \/ (CandProbe /\ UNCHANGED <<essayVars, syncVars, frontVars, pureVars>>)
    \/ (CandCall /\ UNCHANGED <<essayVars, syncVars, frontVars, pureVars>>)
    \/ (CandRetryCall /\ UNCHANGED <<essayVars, syncVars, frontVars, pureVars>>)
    \/ (S3Invoke /\ UNCHANGED <<essayVars, syncVars, frontVars, pureVars>>)

-----------------------------------------------------------------------------
(* Start-up of the backend module and chat_sync,                             *)
(* src/chatbot2.0/langgraph_backend.py:30-51, 259-264                        *)

NoResult == [kind |-> "none", type |-> "", text |-> <<>>]
Warn_groq == "langchain_groq not available"
Warn_key == "GROQ API key not found"
NoClient == [present |-> FALSE, methods |-> {}]
ChatGroqClient == [present |-> TRUE, methods |-> {"stream"}]

\* a bug: the import of langchain_groq is not guarded, the module does not load
StartupStrict ==
    /\ cpc = "import"
    /\ \E groq, key \in BOOLEAN :
          /\ warnings' = (IF groq THEN {} ELSE {Warn_groq}) \cup (IF key THEN {} ELSE {Warn_key})
          /\ IF groq
             THEN llm' = ChatGroqClient /\ cpc' = "ready"
             ELSE llm' = NoClient /\ cpc' = "aborted"
    /\ UNCHANGED <<invoke_kwargs, strat, kw, depth, cand, it, piece, emitted, received,
                   produced, calls, result>>

\* the module is imported: langchain_groq is there or not, an API key is set
\* or not; each lack is logged as a warning; llm is a ChatGroq, or None
\* without langchain_groq.  What ChatGroq(api_key=None) does is the
\* library's: it returns a client or raises, and then the import fails.
Startup ==
    /\ cpc = "import"
    /\ \E groq, key \in BOOLEAN :
          /\ warnings' = (IF groq THEN {} ELSE {Warn_groq}) \cup (IF key THEN {} ELSE {Warn_key})
          /\ IF groq
             THEN \/ llm' = ChatGroqClient /\ cpc' = "ready"
                  \/ ~key /\ llm' = llm /\ cpc' = "aborted"
             ELSE llm' = NoClient /\ cpc' = "ready"
    /\ UNCHANGED <<invoke_kwargs, strat, kw, depth, cand, it, piece, emitted, received,
                   produced, calls, result>>

\* chat_stream(messages, **invoke_kwargs) is called
StreamCall ==
    /\ cpc = "ready"
    /\ cpc' = "start"
    /\ UNCHANGED <<llm, invoke_kwargs, strat, kw, depth, cand, it, piece, emitted, received,
                   produced, calls, warnings, result>>

\* safe_extract_text(resp) or ""
chat_sync_text(resp) == IF safe_extract_text(resp) = <<>> THEN <<>> ELSE safe_extract_text(resp)

\* chat_sync(messages, **invoke_kwargs) is called: llm None raises RuntimeError
SyncStart ==
    /\ cpc = "ready"
    /\ strat' = "sync"
    /\ IF ~llm["present"]
       THEN /\ result' = [kind |-> "raise", type |-> "RuntimeError", text |-> Msg_not_initialized]
            /\ cpc' = "done"
            /\ UNCHANGED <<kw, depth>>
       ELSE /\ cpc' = "call"
            /\ kw' = invoke_kwargs
            /\ depth' = 0
            /\ UNCHANGED result
    /\ UNCHANGED <<llm, invoke_kwargs, cand, it, piece, emitted, received, produced, calls,
                   warnings>>

\* chat_sync: _invoke_with_kw_retry(llm.invoke, messages, stream_flag=False, ...)
\* retries, raises to the caller, or returns the text of the response
SyncInvoke ==
    /\ cpc = "call"
    /\ strat = "sync"
    /\ \/ \E e \in InvokeErrors :
             /\ calls' = Append(calls,
                    CallRecord("invoke", FALSE, kw, KwRetry(e, kw)[1], e["msg"], None))
             /\ IF KwRetry(e, kw)[1] = "retry"
                THEN /\ kw' = KwRetry(e, kw)[2]
                     /\ depth' = depth + 1
                     /\ UNCHANGED <<cpc, result>>
                ELSE /\ result' = [kind |-> "raise", type |-> e["type"], text |-> e["msg"]]
                     /\ cpc' = "done"
                     /\ UNCHANGED <<kw, depth>>
       \/ \E r \in Returns :
             /\ calls' = Append(calls, CallRecord("invoke", FALSE, kw, "ret", <<>>, r))
             /\ result' = [kind |-> "return", type |-> "str",
                           text |-> chat_sync_text(RetryResult(r, depth))]
             /\ cpc' = "done"
             /\ UNCHANGED <<kw, depth>>
    /\ UNCHANGED <<llm, invoke_kwargs, strat, cand, it, piece, emitted, received, produced,
                   warnings>>

\* the call is over; the next one starts from scratch
NextCall ==
    /\ cpc = "done"
    /\ cpc' = "ready"
    /\ strat' = "none"
    /\ kw' = [k \in {} |-> "v"]
    /\ depth' = 0
    /\ cand' = 0
    /\ it' = NoIterator
    /\ piece' = <<>>
    /\ emitted' = <<>>
    /\ received' = <<>>
    /\ produced' = <<>>
    /\ calls' = <<>>
    /\ result' = NoResult
    /\ UNCHANGED <<llm, invoke_kwargs, warnings>>

-----------------------------------------------------------------------------
(* The chat frontend, src/chatbot2.0/streamlit_frontend.py:187-254, 304-450, *)
(* 480-502.  Every interaction runs the script from its top: the chat        *)
(* history is loaded from the file when it is empty, then the widget that    *)
(* was used is handled.  A submitted input is handled in steps: the chunks   *)
(* of chat_stream one by one, then the finalization, after which the script  *)
(* runs again and its local variables are gone.                              *)
(* session_state["shared"] tells that chat_history[thread_id]["messages"]    *)
(* is the list object message_history, as after a save.                      *)

TitleLen == 60
MaxTurns == 2

Str_dots == <<".", ".", ".">>
Str_no_text == <<"(", "n", "o", " ", "t", "e", "x", "t", " ", "r", "e", "t", "u", "r", "n", "e", "d", ")">>
Long61 == [i \in 1..(TitleLen + 1) |-> "b"]
UserInputs == { Str_hi, Long61 }
Now_ts == Str_ts

\* the history of a request: nothing has happened yet
NoRequest ==
    [error |-> <<>>, shown |-> FALSE, sync |-> "no", saved |-> "no", chunks |-> 0, requests |-> 0]
Now_timestamp == PyFloat(<<"1", "7", ".", "5">>)

\* what chat_stream may yield: the texts of pieces, and the error chunk of
\* an exception with a message or without one
FrontPieces ==
    { PyStr(Str_hi), None,
      PyDict(<< <<K_content, PyStr(Str_def)>>, <<K_id, PyStr(Str_hi)>> >>) }
FrontErrors == { OtherError(Msg_timeout), OtherError(<<>>) }
FrontChunks ==
    { safe_extract_text(x) : x \in FrontPieces } \cup { OuterExcept(x)["chunk"] : x \in FrontErrors }

\* how chat_sync may end
FrontSyncResults ==
    { [kind |-> "return", type |-> "str", text |-> chat_sync_text(x)] : x \in {PyStr(Str_hi)} }
    \cup { [kind |-> "raise", type |-> "RuntimeError", text |-> Msg_not_initialized] }

\* text[:n]
Prefix(text, n) == SubSeq(text, 1, IF Len(text) < n THEN Len(text) ELSE n)

\* text.startswith(prefix)
startswith(text, prefix) == Len(text) >= Len(prefix) /\ SubSeq(text, 1, Len(prefix)) = prefix

\* text.replace(sub, "")
RECURSIVE RemoveAll(_, _)
RemoveAll(text, sub) ==
    IF text = <<>> THEN <<>>
    ELSE IF startswith(text, sub) THEN RemoveAll(SubSeq(text, Len(sub) + 1, Len(text)), sub)
    ELSE <<text[1]>> \o RemoveAll(Tail(text), sub)

\* bool(v)
Truthy(v) ==
    CASE v["kind"] = "none" -> FALSE
      [] v["kind"] = "str" -> v["text"] # <<>>
      [] v["kind"] \in {"map", "list"} -> v["items"] # <<>>
      [] OTHER -> TRUE

\* payload.get(k, default), and {k: v for k, v in payload.items() if k != "content"}
DictGet(kvs, k, default) == IF k \in Keys(kvs) THEN Lookup(kvs, k) ELSE default
WithoutContent(kvs) == SelectSeq(kvs, LAMBDA kv : kv[1] # K_content)

\* user_input[:60] + ("..." if len(user_input)>60 else "")
ChatTitle(input) == Prefix(input, TitleLen) \o (IF Len(input) > TitleLen THEN Str_dots ELSE <<>>)

\* if not st.session_state.chat_history: chat_history = load_chats() or {}
LoadIfEmpty(ss, f) ==
    LET loaded == load_chats(f)
    IN  IF ss["chat_history"] # <<>> THEN ss
        ELSE [ss EXCEPT !["chat_history"] = IF loaded["kind"] = "map" THEN loaded["items"] ELSE <<>>,
                        !["shared"] = FALSE]

\* message_history changed in place to ms: the record that shares the list
\* changes with it
InPlace(ss, ms) ==
    [ss EXCEPT !["message_history"] = ms,
               !["chat_history"] =
                   IF ss["shared"]
                   THEN DictSet(@, ss["thread_id"],
                            PyDict(DictSet(Lookup(@, ss["thread_id"])["items"], K_messages,
                                           PyList(ms))))
                   ELSE @]

\* the message is appended and the conversation saved in chat_history under
\* the thread id, with the title of this input
Saved(ss, message, input) ==
    LET ms == Append(ss["message_history"], message)
    IN  [ss EXCEPT !["message_history"] = ms,
                   !["chat_history"] = DictSet(@, ss["thread_id"],
                                           ChatRecord(ChatTitle(input), ms, Now_timestamp)),
                   !["shared"] = TRUE]

\* what save_chats may leave in the file: the new text, or, when open
\* raises, what it held
SaveResults(f, ss) == { save_chats(f, PyDict(ss["chat_history"])), f }

UserTurns(ms) == Len(SelectSeq(ms, LAMBDA m : Lookup(m["items"], K_role) = PyStr(Str_user)))

\* New Chat: a new thread id and a new, empty message list
NewChat ==
    /\ fpc = "idle"
    /\ \E id \in ThreadIds :
          /\ id # session_state["thread_id"]
          /\ id \notin Keys(session_state["chat_history"])
          /\ session_state' = [session_state EXCEPT !["thread_id"] = id,
                                                    !["message_history"] = <<>>,
                                                    !["shared"] = FALSE]
    /\ UNCHANGED <<file, fpc, user_input, full_text, stream_error, assistant_meta, outcome>>

\* a conversation of the sidebar is opened: its messages are copied
LoadChat ==
    /\ fpc = "idle"
    /\ \E id \in Keys(session_state["chat_history"]) :
          session_state' =
              [session_state EXCEPT
                  !["thread_id"] = id,
                  !["message_history"] =
                      Lookup(Lookup(session_state["chat_history"], id)["items"], K_messages)["items"],
                  !["shared"] = FALSE]
    /\ UNCHANGED <<file, fpc, user_input, full_text, stream_error, assistant_meta, outcome>>

\* Clear All History: the chat history is emptied and saved; the script runs
\* again and loads what the file holds
ClearAll ==
    /\ fpc = "idle"
    /\ \E f \in SaveResults(file, [session_state EXCEPT !["chat_history"] = <<>>]) :
          /\ file' = f
          /\ session_state' =
                LoadIfEmpty([session_state EXCEPT !["chat_history"] = <<>>, !["shared"] = FALSE], f)
    /\ UNCHANGED <<fpc, user_input, full_text, stream_error, assistant_meta, outcome>>

\* Regenerate last reply: with a user message in the list, a last message of
\* the assistant is popped
Regenerate ==
    /\ fpc = "idle"
    /\ LET ms == session_state["message_history"]
       IN  /\ UserTurns(ms) > 0
           /\ session_state' =
                 IF Lookup(ms[Len(ms)]["items"], K_role) = PyStr(Str_assistant)
                 THEN InPlace(session_state, SubSeq(ms, 1, Len(ms) - 1))
                 ELSE session_state
    /\ UNCHANGED <<file, fpc, user_input, full_text, stream_error, assistant_meta, outcome>>

\* Clear current chat: a new, empty message list
ClearCurrent ==
    /\ fpc = "idle"
    /\ session_state' = [session_state EXCEPT !["message_history"] = <<>>, !["shared"] = FALSE]
    /\ UNCHANGED <<file, fpc, user_input, full_text, stream_error, assistant_meta, outcome>>

\* an input is submitted: the user message is appended and the loop begins
Submit ==
    /\ fpc = "idle"
    /\ outcome["requests"] < MaxTurns
    /\ \E input \in UserInputs :
          /\ user_input' = input
          /\ session_state' =
                InPlace(session_state,
                        Append(session_state["message_history"], Message(Str_user, input, Now_ts)))
    /\ full_text' = <<>>
    /\ stream_error' = <<>>
    /\ assistant_meta' = <<>>
    /\ outcome' = [NoRequest EXCEPT !["requests"] = outcome["requests"] + 1]
    /\ fpc' = "stream"
    /\ UNCHANGED file

\* for chunk in chat_stream(...): one chunk
TakeChunk ==
    /\ fpc = "stream"
    /\ outcome["chunks"] < MaxChunks
    /\ \E chunk \in FrontChunks :
          LET raw == SubSeq(chunk, Len(STRUCTURED_PREFIX) + 1, Len(chunk))
              payload == json_loads(raw)
              content == DictGet(payload[1]["items"], K_content, PyStr(<<>>))
          IN  IF chunk = <<>>
              THEN /\ UNCHANGED <<full_text, stream_error, assistant_meta, fpc>>
                   /\ outcome' = [outcome EXCEPT !["chunks"] = @ + 1]
              ELSE IF startswith(chunk, STRUCTURED_PREFIX)
              THEN /\ IF payload # <<>> /\ payload[1]["kind"] = "map"
                      THEN /\ full_text' = IF Truthy(content) THEN content["text"] ELSE full_text
                           /\ assistant_meta' = <<PyDict(WithoutContent(payload[1]["items"]))>>
                      ELSE UNCHANGED <<full_text, assistant_meta>>
                   /\ outcome' = [outcome EXCEPT !["chunks"] = @ + 1]
                   /\ UNCHANGED <<stream_error, fpc>>
              ELSE IF startswith(chunk, STREAM_ERROR_PREFIX)
              THEN /\ stream_error' = <<RemoveAll(chunk, STREAM_ERROR_PREFIX)>>
                   /\ outcome' = [outcome EXCEPT
                                     !["chunks"] = 0,
                                     !["error"] = <<SubSeq(chunk, Len(STREAM_ERROR_PREFIX) + 1,
                                                           Len(chunk))>>]
                   /\ fpc' = "finalize"
                   /\ UNCHANGED <<full_text, assistant_meta>>
              ELSE /\ full_text' = full_text \o chunk
                   /\ outcome' = [outcome EXCEPT !["chunks"] = @ + 1]
                   /\ UNCHANGED <<stream_error, assistant_meta, fpc>>
    /\ UNCHANGED <<session_state, file, user_input>>

\* chat_stream is exhausted
StreamEnds ==
    /\ fpc = "stream"
    /\ fpc' = "finalize"
    /\ outcome' = [outcome EXCEPT !["chunks"] = 0]
    /\ UNCHANGED <<session_state, file, user_input, full_text, stream_error, assistant_meta>>

\* if stream_error: the error is recorded and shown, chat_sync is tried, and
\* its text is appended and saved unless it raises
FinalizeError ==
    /\ fpc = "finalize"
    /\ stream_error # <<>> /\ stream_error[1] # <<>>
    /\ \E r \in FrontSyncResults :
          LET recorded == [session_state EXCEPT !["last_stream_error"] = stream_error]
              structured == startswith(r["text"], STRUCTURED_PREFIX)
              payload == json_loads(SubSeq(r["text"], Len(STRUCTURED_PREFIX) + 1, Len(r["text"])))
              parsed == structured /\ payload # <<>> /\ payload[1]["kind"] = "map"
              content == IF parsed THEN DictGet(payload[1]["items"], K_content, PyStr(<<>>))
                         ELSE PyStr(r["text"])
              final_meta == IF parsed THEN PyDict(WithoutContent(payload[1]["items"])) ELSE None
              final_text == IF Truthy(content) THEN content ELSE PyStr(Str_no_text)
              message == MessageMeta(Str_assistant, final_text["text"], Now_ts, final_meta)
          IN  IF r["kind"] = "raise"
              THEN /\ session_state' = recorded
                   /\ outcome' = [outcome EXCEPT !["shown"] = TRUE, !["sync"] = "raise"]
                   /\ UNCHANGED file
              ELSE /\ session_state' = Saved(recorded, message, user_input)
                   /\ file' \in SaveResults(file, session_state')
                   /\ outcome' = [outcome EXCEPT !["shown"] = TRUE, !["sync"] = "ret",
                                                 !["saved"] = "fallback"]
    /\ fpc' = "idle"
    /\ user_input' = <<>> /\ full_text' = <<>> /\ stream_error' = <<>> /\ assistant_meta' = <<>>

\* else: the accumulated text is appended as the reply and saved
FinalizeStreamed ==
    /\ fpc = "finalize"
    /\ ~(stream_error # <<>> /\ stream_error[1] # <<>>)
    /\ LET message ==
              IF assistant_meta # <<>> /\ Truthy(assistant_meta[1])
              THEN MessageMeta(Str_assistant, full_text, Now_ts, assistant_meta[1])
              ELSE Message(Str_assistant, full_text, Now_ts)
       IN  /\ session_state' = Saved(session_state, message, user_input)
           /\ file' \in SaveResults(file, session_state')
    /\ outcome' = [outcome EXCEPT !["saved"] = "stream"]
    /\ fpc' = "idle"
    /\ user_input' = <<>> /\ full_text' = <<>> /\ stream_error' = <<>> /\ assistant_meta' = <<>>

-----------------------------------------------------------------------------
(* The harness of the pure functions: an input is drawn, the function applied *)

PureIdle == arg = <<>> /\ ret = <<>>

SyncIdle == warnings = {} /\ result = NoResult

FrontIdle ==
    /\ session_state = [message_history |-> <<>>, thread_id |-> <<>>, chat_history |-> <<>>,
                        last_stream_error |-> <<>>, shared |-> FALSE]
    /\ file = NoFile
    /\ fpc = "off"
    /\ user_input = <<>>
    /\ full_text = <<>>
    /\ stream_error = <<>>
    /\ assistant_meta = <<>>
    /\ outcome = NoRequest

EssayIdle ==
    /\ InitEssay
    /\ taskOrder = CHOOSE o \in TaskOrders : TRUE

-----------------------------------------------------------------------------
(* The essay workflow *)

Init == InitEssay /\ ChatIdle /\ SyncIdle /\ FrontIdle /\ PureIdle

Next ==
    \/ (MainInvoke /\ UNCHANGED <<chatVars, syncVars, frontVars, pureVars>>)
    \/ (\E n \in Nodes : Begin(n) /\ UNCHANGED <<chatVars, syncVars, frontVars, pureVars>>)
    \/ (RunLanguage /\ UNCHANGED <<chatVars, syncVars, frontVars, pureVars>>)
    \/ (RunAnalysis /\ UNCHANGED <<chatVars, syncVars, frontVars, pureVars>>)
    \/ (RunThought /\ UNCHANGED <<chatVars, syncVars, frontVars, pureVars>>)
    \/ (RunFinal /\ UNCHANGED <<chatVars, syncVars, frontVars, pureVars>>)
    \/ (\E n \in Nodes : ModelRaises(n) /\ UNCHANGED <<chatVars, syncVars, frontVars, pureVars>>)
    \/ (ApplyWrites /\ UNCHANGED <<chatVars, syncVars, frontVars, pureVars>>)
    \/ (MainPrintResults /\ UNCHANGED <<chatVars, syncVars, frontVars, pureVars>>)
    \/ (MainFallback /\ UNCHANGED <<chatVars, syncVars, frontVars, pureVars>>)

Spec == Init /\ [][Next]_vars

InitChat == EssayIdle /\ ChatCalled /\ SyncIdle /\ FrontIdle /\ PureIdle

SpecChat == InitChat /\ [][NextChat]_vars

\* the backend module from its import on: calls of chat_stream and chat_sync
\* with the keyword argument of the frontend
InitBackend ==
    /\ EssayIdle /\ SyncIdle /\ FrontIdle /\ PureIdle
    /\ llm = NoClient
    /\ invoke_kwargs = [k \in {K_temperature} |-> "v"]
    /\ cpc = "import"
    /\ strat = "none"
    /\ kw = [k \in {} |-> "v"]
    /\ depth = 0
    /\ cand = 0
    /\ it = NoIterator
    /\ piece = <<>>
    /\ emitted = <<>>
    /\ received = <<>>
    /\ produced = <<>>
    /\ calls = <<>>

NextBackend ==
    \/ (Startup /\ UNCHANGED <<essayVars, frontVars, pureVars>>)
    \/ (StreamCall /\ UNCHANGED <<essayVars, frontVars, pureVars>>)
    \/ (SyncStart /\ UNCHANGED <<essayVars, frontVars, pureVars>>)
    \/ (SyncInvoke /\ UNCHANGED <<essayVars, frontVars, pureVars>>)
    \/ (NextCall /\ UNCHANGED <<essayVars, frontVars, pureVars>>)
    \/ NextChat

SpecBackend == InitBackend /\ [][NextBackend]_vars

\* the frontend from its first run on, with no file yet
InitFront ==
    /\ EssayIdle /\ ChatIdle /\ SyncIdle /\ PureIdle
    /\ file = NoFile
    /\ session_state =
          LoadIfEmpty([message_history |-> <<>>, thread_id |-> <<"a">>, chat_history |-> <<>>,
                       last_stream_error |-> <<>>, shared |-> FALSE], file)
    /\ fpc = "idle"
    /\ user_input = <<>>
    /\ full_text = <<>>
    /\ stream_error = <<>>
    /\ assistant_meta = <<>>
    /\ outcome = NoRequest

NextFront ==
    \/ (NewChat /\ UNCHANGED <<essayVars, chatVars, syncVars, pureVars>>)
    \/ (LoadChat /\ UNCHANGED <<essayVars, chatVars, syncVars, pureVars>>)
    \/ (ClearAll /\ UNCHANGED <<essayVars, chatVars, syncVars, pureVars>>)
    \/ (Regenerate /\ UNCHANGED <<essayVars, chatVars, syncVars, pureVars>>)
    \/ (ClearCurrent /\ UNCHANGED <<essayVars, chatVars, syncVars, pureVars>>)
    \/ (Submit /\ UNCHANGED <<essayVars, chatVars, syncVars, pureVars>>)
    \/ (TakeChunk /\ UNCHANGED <<essayVars, chatVars, syncVars, pureVars>>)
    \/ (StreamEnds /\ UNCHANGED <<essayVars, chatVars, syncVars, pureVars>>)
    \/ (FinalizeError /\ UNCHANGED <<essayVars, chatVars, syncVars, pureVars>>)
    \/ (FinalizeStreamed /\ UNCHANGED <<essayVars, chatVars, syncVars, pureVars>>)

SpecFront == InitFront /\ [][NextFront]_vars

-----------------------------------------------------------------------------
(* final_evaluation as a function of the state it is handed *)

MaxScores == 3
MaxScoreVal == 11

ScoreLists == UNION { [1..n -> 0..MaxScoreVal] : n \in 0..MaxScores }

\* the states final_evaluation may be handed: individual_scores absent, empty or not
FinalInputs ==
    { EmptyState } \cup { MergeUpdate(EmptyState, [individual_scores |-> s]) : s \in ScoreLists }

InitFinal == EssayIdle /\ ChatIdle /\ SyncIdle /\ FrontIdle /\ arg \in FinalInputs /\ ret = <<>>

ApplyFinal ==
    /\ ret = <<>>
    /\ \E o \in Summaries : ret' = <<final_evaluation(arg, o)>>
    /\ UNCHANGED arg

NextFinal == ApplyFinal /\ UNCHANGED <<essayVars, chatVars, syncVars, frontVars>>

SpecFinal == InitFinal /\ [][NextFinal]_vars

-----------------------------------------------------------------------------
(* evaluate_essay_dimension as a function of the model's response *)

MaxFragments == 4

Fragments ==
    { Str_Score \o <<" ", "7">> \o Str_Slash10,
      <<"s", "C", "o", "R", "E", ":", "1", "5">> \o Str_Slash10,
      Str_Score, <<" ">>, <<"7">>, <<"0">>, Str_Slash10, <<"x">> }

RECURSIVE Concat(_)
Concat(fs) == IF fs = <<>> THEN <<>> ELSE fs[1] \o Concat(Tail(fs))

ScoreTexts == { Concat(fs) : fs \in UNION { [1..n -> Fragments] : n \in 0..MaxFragments } }

InitScore == EssayIdle /\ ChatIdle /\ SyncIdle /\ FrontIdle /\ arg \in ScoreTexts /\ ret = <<>>

ApplyScore ==
    /\ ret = <<>>
    /\ ret' = <<evaluate_essay_dimension(arg)>>
    /\ UNCHANGED arg

NextScore == ApplyScore /\ UNCHANGED <<essayVars, chatVars, syncVars, frontVars>>

SpecScore == InitScore /\ [][NextScore]_vars

-----------------------------------------------------------------------------
(* _safe_extract_text as a function of the piece it is handed *)

MaxItems == 2
MaxParts == 3

K_x == <<"x">>
Str_def_foo == <<"d", "e", "f", " ", "f", "o", "o", "(", ")", ":">>
Str_return_x == <<"r", "e", "t", "u", "r", "n", " ", "x">>
Str_define == <<"d", "e", "f", "i", "n", "e">>
Str_if == <<"i", "f">>

\* the values of a mapping or of an attribute
ItemValues == { None, PyStr(Str_hi), PyStr(Str_def_foo), PyDict(<<>>) }
ItemKeys == { K_content, K_additional_kwargs, K_response_metadata, K_id, K_text, K_x }

\* the <<key, value>> lists of up to MaxItems distinct keys
ItemLists ==
    UNION { { kvs \in [1..n -> ItemKeys \X ItemValues] :
                \A i, j \in 1..n : i # j => kvs[i][1] # kvs[j][1] } : n \in 0..MaxItems }

StringParts == { Str_def_foo, Str_return_x, Str_define, Str_if, Str_hi, Fence, Newline }
Strings == { Concat(ps) : ps \in UNION { [1..n -> StringParts] : n \in 0..MaxParts } }

ExtractInputs ==
    { None }
    \cup { PyStr(t) : t \in Strings }
    \cup { PyDict(kvs) : kvs \in ItemLists }
    \cup { PyObj(kvs, Str_return_x, "plain") : kvs \in ItemLists }

InitExtract == EssayIdle /\ ChatIdle /\ SyncIdle /\ FrontIdle /\ arg \in ExtractInputs /\ ret = <<>>

ApplyExtract ==
    /\ ret = <<>>
    /\ ret' = <<safe_extract_text(arg)>>
    /\ UNCHANGED arg

NextExtract == ApplyExtract /\ UNCHANGED <<essayVars, chatVars, syncVars, frontVars>>

SpecExtract == InitExtract /\ [][NextExtract]_vars

-----------------------------------------------------------------------------
(* save_chats and load_chats as functions of the chat history and the file *)

MaxMsgs == 2

Str_quoted == <<"a", "\"", "\\", "\n", "{">>
Timestamps == { PyFloat(<<"1", "7", ".", "5">>) }
Titles == { Str_hi, Str_quoted }
SampleMessages ==
    { Message(Str_user, Str_quoted, Str_ts),
      MessageMeta(Str_assistant, Fenced(Str_def), Str_ts, None),
      MessageMeta(Str_assistant, <<>>, Str_ts, PyDict(<< <<K_id, PyStr(Str_hi)>>, <<K_x, PyList(<<None>>)>> >>)) }
MessageLists == UNION { [1..n -> SampleMessages] : n \in 0..MaxMsgs }
ChatRecords ==
    { ChatRecord(t, ms, ts) : t \in Titles, ms \in MessageLists, ts \in Timestamps }

\* the chat histories: every choice of thread ids, in every order
Histories ==
    { PyDict(kvs) : kvs \in
        UNION { { h \in [1..n -> ThreadIds \X ChatRecords] :
                    \A i, j \in 1..n : i # j => h[i][1] # h[j][1] } : n \in 0..Cardinality(ThreadIds) } }

\* what the file may hold before the save
OldFiles ==
    { NoFile,
      save_chats(NoFile, PyDict(<< << <<"c">>, ChatRecord(Str_hi, <<>>, PyFloat(<<"2", ".", "0">>)) >> >>)) }

InitPersist ==
    /\ EssayIdle /\ ChatIdle /\ SyncIdle /\ FrontIdle
    /\ arg \in Histories
    /\ \E f \in OldFiles : ret = [file |-> f, saved |-> "no", loaded |-> <<>>]

SaveChats ==
    /\ ret["saved"] = "no"
    /\ ret["loaded"] = <<>>
    /\ \/ ret' = [ret EXCEPT !["file"] = save_chats(ret["file"], arg), !["saved"] = "yes"]
       \/ \E f \in SaveOutcomesOnError(ret["file"], arg) :
             ret' = [ret EXCEPT !["file"] = f, !["saved"] = "failed"]
    /\ UNCHANGED arg

LoadChats ==
    /\ ret["loaded"] = <<>>
    /\ ret' = [ret EXCEPT !["loaded"] = <<load_chats(ret["file"])>>]
    /\ UNCHANGED arg

NextPersist ==
    \/ (SaveChats /\ UNCHANGED <<essayVars, chatVars, syncVars, frontVars>>)
    \/ (LoadChats /\ UNCHANGED <<essayVars, chatVars, syncVars, frontVars>>)

SpecPersist == InitPersist /\ [][NextPersist]_vars

-----------------------------------------------------------------------------
(* _invoke_with_kw_retry as a function of its arguments and of what          *)
(* invoke_fn does at each call.  ret holds the caller's dict, the local      *)
(* invoke_kwargs of the level in hand, the calls made and the outcome.       *)

KwValues == {"v", "w"}
RetryKwNames == KwNames \cup {K_x}
RetryDicts == UNION { [K -> KwValues] : K \in SUBSET RetryKwNames }
MessageLists2 == { <<Str_hi>>, <<Str_hi, Str_def>> }
RetryErrors ==
    InvokeErrors \cup { TypeError(Msg_unexpected(K_x)), OtherError(Msg_unexpected(K_temperature)) }

\* invoke_kwargs = dict(invoke_kwargs or {}): a new dict, not the caller's
DictCopy(d) == [shared |-> FALSE, dict |-> d]

InitRetry ==
    /\ EssayIdle /\ ChatIdle /\ SyncIdle /\ FrontIdle
    /\ arg \in [messages : MessageLists2, stream_flag : BOOLEAN, invoke_kwargs : RetryDicts]
    /\ ret = [caller |-> arg["invoke_kwargs"], local |-> DictCopy(arg["invoke_kwargs"]),
              log |-> <<>>, end |-> "running", value |-> None]

\* invoke_fn(messages, stream=True, **invoke_kwargs) or invoke_fn(messages,
\* **invoke_kwargs): what the call is made with
RetryCall(a, local) ==
    [messages |-> a["messages"], stream |-> a["stream_flag"], kwargs |-> local["dict"]]

\* invoke_fn raises: the keyword is deleted from the local dict and the
\* function calls itself, or the exception goes up as it is
RetryRaises ==
    /\ ret["end"] = "running"
    /\ \E e \in RetryErrors :
          LET call == RetryCall(arg, ret["local"])
              d == KwRetry(e, ret["local"]["dict"])
              deleted == DOMAIN ret["local"]["dict"] \ DOMAIN d[2]
          IN  ret' = IF d[1] = "retry"
                     THEN [ret EXCEPT
                             !["log"] = Append(@, [call |-> call, error |-> <<e>>]),
                             !["caller"] = IF ret["local"]["shared"]
                                           THEN [k \in DOMAIN @ \ deleted |-> @[k]] ELSE @,
                             !["local"] = DictCopy(d[2])]
                     ELSE [ret EXCEPT
                             !["log"] = Append(@, [call |-> call, error |-> <<e>>]),
                             !["end"] = "raised",
                             !["value"] = e]
    /\ UNCHANGED arg

\* invoke_fn returns: so does every level
RetryReturns ==
    /\ ret["end"] = "running"
    /\ \E r \in Returns :
          ret' = [ret EXCEPT
                    !["log"] = Append(@, [call |-> RetryCall(arg, ret["local"]), error |-> <<>>]),
                    !["end"] = "returned",
                    !["value"] = RetryResult(r, Len(ret["log"]))]
    /\ UNCHANGED arg

NextRetry ==
    \/ (RetryRaises /\ UNCHANGED <<essayVars, chatVars, syncVars, frontVars>>)
    \/ (RetryReturns /\ UNCHANGED <<essayVars, chatVars, syncVars, frontVars>>)

SpecRetry == InitRetry /\ [][NextRetry]_vars

-----------------------------------------------------------------------------
(* Claims *)

FeedbackKeys == {"language_feedback", "analysis_feedback", "clarity_feedback"}

\* C1: final_evaluation is not scheduled, and does not start, before the three
\* dimension evaluations have all returned and language_feedback,
\* analysis_feedback and clarity_feedback are all set in the state it reads.
C1_JoinBarrier ==
    /\ tasks["final_evaluation"] # "idle" =>
          /\ FeedbackKeys \subseteq DOMAIN state
          /\ \A d \in Dimensions : execCount[d] >= 1 /\ tasks[d] = "idle"
    /\ tasks["final_evaluation"] \in {"running", "done", "failed"} =>
          FeedbackKeys \subseteq DOMAIN inputs["final_evaluation"]

C1_Witness ==
    /\ tasks["final_evaluation"] = "running"
    /\ FeedbackKeys \subseteq DOMAIN inputs["final_evaluation"]

\* C2: final_evaluation runs at most once in a run and exactly once in a
\* completed run; overall_feedback and avg_score are each written as often.
C2_FinalOnce ==
    /\ execCount["final_evaluation"] <= 1
    /\ chanWrites["overall_feedback"] <= 1
    /\ chanWrites["avg_score"] <= 1
    /\ wf = "done" =>
          /\ execCount["final_evaluation"] = 1
          /\ chanWrites["overall_feedback"] = 1
          /\ chanWrites["avg_score"] = 1

C2_Witness ==
    /\ wf = "done"
    /\ execCount["final_evaluation"] = 1
    /\ chanWrites["overall_feedback"] = 1
    /\ \A d \in Dimensions : execCount[d] = 1

\* C3 (as claimed): a completed run ends with individual_scores holding exactly
\* three integers, each between 0 and 10 inclusive.
C3_ScoresInRange ==
    wf = "done" =>
        /\ "individual_scores" \in DOMAIN state
        /\ Len(state["individual_scores"]) = 3
        /\ \A i \in 1..Len(state["individual_scores"]) :
              state["individual_scores"][i] \in 0..10

\* the sum of a list, by its indices
Total(s) ==
    LET f[i \in 0..Len(s)] == IF i = 0 THEN 0 ELSE f[i - 1] + s[i]
    IN  f[Len(s)]

\* C4: avg_score is the arithmetic mean of individual_scores (as a fraction
\* num/den: num * count = den * sum) when there are scores, and 0.0 when
\* individual_scores is empty or absent.
C4_Mean ==
    ret # <<>> =>
        LET scores == IF "individual_scores" \in DOMAIN arg
                      THEN arg["individual_scores"] ELSE <<>>
            avg == ret[1]["avg_score"]
        IN  IF Len(scores) > 0
            THEN avg[2] > 0 /\ avg[1] * Len(scores) = avg[2] * Total(scores)
            ELSE avg = <<0, 1>>

C4_Witness ==
    /\ ret # <<>>
    /\ "individual_scores" \in DOMAIN arg
    /\ Len(arg["individual_scores"]) = 3
    /\ ret[1]["avg_score"][2] = 3

\* "Score:" stands at position i of t, the letters in any case
HeadAt(t, i) ==
    /\ i + 5 <= Len(t)
    /\ \A k \in 1..6 : Lower(t[i + k - 1]) = <<"s", "c", "o", "r", "e", ":">>[k]

\* after a "Score:" at position i of t come w blanks, then d >= 1 digits, then "/10"
TailAt(t, i, w, d) ==
    /\ i + 6 + w + d + 2 <= Len(t)
    /\ \A k \in 1..w : t[i + 5 + k] \in {" ", "\n", "\t"}
    /\ \A k \in 1..d : IsDigit(t[i + 5 + w + k])
    /\ t[i + 6 + w + d] = "/"
    /\ t[i + 7 + w + d] = "1"
    /\ t[i + 8 + w + d] = "0"

\* the occurrences <<i, w, d>> of the pattern in t
Occurrences(t) ==
    UNION { { <<i, wd[1], wd[2]>> :
                wd \in { x \in (0..Len(t)) \X (1..Len(t)) : TailAt(t, i, x[1], x[2]) } } :
            i \in { j \in 1..Len(t) : HeadAt(t, j) } }

\* the number the d digits from position p of t write in base ten
Decimal(t, p, d) ==
    LET f[k \in 0..d] == IF k = 0 THEN 0 ELSE f[k - 1] * 10 + DigitVal(t[p + k - 1])
    IN  f[d]

\* C5: the score returned is the integer X of the first occurrence of
\* "Score: X/10" (any letter case) in the response, and 5 when the response
\* holds no occurrence; the content is returned as it came.
C5_ScoreExtraction ==
    ret # <<>> =>
        /\ ret[1][1] = arg
        /\ IF Occurrences(arg) = {}
           THEN ret[1][2] = 5
           ELSE LET first == CHOOSE o \in Occurrences(arg) :
                                \A p \in Occurrences(arg) : o[1] <= p[1]
                IN  ret[1][2] = Decimal(arg, first[1] + 6 + first[2], first[3])

\* a response with two occurrences, the first not at the start, has been scored
C5_Witness ==
    /\ ret # <<>>
    /\ Cardinality(Occurrences(arg)) >= 2
    /\ \A o \in Occurrences(arg) : o[1] > 1
    /\ ret[1][2] = 15

-----------------------------------------------------------------------------
(* Claims about chat_stream *)

IsStreamed(c) == c["src"] \in {"s1", "cand", "candr"}
IsError(c) == c["src"] = "error"
LastCall == calls[Len(calls)]

\* what the transport delivered in answer to call j, in order
ProducedBy(j) == SelectSeq(produced, LAMBDA r : r["call"] = j)

\* C6: when the first invoke(stream=True) raised an unexpected-keyword error
\* that _invoke_with_kw_retry answered by a retry without the keyword, and the
\* retried call returned and its stream ran to its end, the chunks emitted are
\* the normalized elements that call delivered, one for one and in order, and
\* nothing else: no error chunk, no chunk of another strategy.
C6_RetryOutput ==
    (calls # <<>> /\ calls[1]["out"] = "retry" /\ cpc = "done" /\ strat = "s1") =>
        LET j == Len(calls)
            out == ProducedBy(j)
        IN  /\ LastCall["strat"] = "s1" /\ LastCall["out"] = "ret" /\ LastCall["stream"]
            /\ Len(emitted) = Len(out)
            /\ \A i \in 1..Len(emitted) :
                  /\ emitted[i]["text"] = safe_extract_text(out[i]["piece"])
                  /\ emitted[i]["src"] = "s1"
                  /\ emitted[i]["call"] = j

C6_Witness ==
    /\ calls # <<>> /\ calls[1]["out"] = "retry" /\ cpc = "done" /\ strat = "s1"
    /\ Len(emitted) = 2
    /\ emitted[1]["text"] = Fenced(Str_def)
    /\ emitted[2]["text"] = <<>>

\* C7 (as claimed): when strategy 1 and every candidate have failed and the
\* non-streaming invoke returned, exactly one chunk has been emitted in
\* total, the normalized result of that call.
C7_OneChunk ==
    (cpc = "done" /\ strat = "s3" /\ LastCall["out"] = "ret") =>
        /\ Len(emitted) = 1
        /\ emitted[1]["text"] = safe_extract_text(LastCall["resp"])

\* C8: chat_stream never raises; at most one error chunk is emitted and
\* nothing follows it; a run whose last strategy failed, or whose llm is
\* None, ends with exactly one error chunk, the marker followed by the
\* description of that failure, and with llm None it is the only chunk; no
\* other run emits an error chunk.
C8_TerminalError ==
    LET errs == { i \in DOMAIN emitted : IsError(emitted[i]) }
        failed == \/ ~llm["present"]
                  \/ (calls # <<>> /\ LastCall["strat"] = "s3" /\ LastCall["out"] = "raise")
    IN  /\ cpc # "raised"
        /\ Cardinality(errs) <= 1
        /\ \A i \in errs : i = Len(emitted) /\ cpc = "done"
        /\ (cpc = "done" /\ failed) =>
              /\ errs = {Len(emitted)}
              /\ emitted[Len(emitted)]["text"] =
                    STREAM_ERROR_PREFIX \o
                        (IF llm["present"] THEN LastCall["msg"] ELSE Msg_not_initialized)
              /\ ~llm["present"] => Len(emitted) = 1
        /\ (cpc = "done" /\ ~failed) => errs = {}

\* the last strategy failed after chunks had been emitted
C8_Witness ==
    /\ cpc = "done"
    /\ calls # <<>> /\ LastCall["strat"] = "s3" /\ LastCall["out"] = "raise"
    /\ Len(emitted) = 3
    /\ emitted[3]["text"] = STREAM_ERROR_PREFIX \o Msg_timeout

\* the calls are made in the order strategy 1, candidates in their fixed
\* order, strategy 3
StrategyRank(c) ==
    CASE c["strat"] = "s1" -> 0
      [] c["strat"] = "s3" -> Len(CandidateNames) + 1
      [] OTHER -> CHOOSE i \in DOMAIN CandidateNames : CandidateNames[i] = c["fn"]

\* C9 (as claimed): the strategies are tried in order, and once a strategy
\* has yielded a chunk no later call is made: every content chunk comes from
\* the response of the last call made.
C9_FirstSuccessWins ==
    /\ \A i, j \in DOMAIN calls : i <= j => StrategyRank(calls[i]) <= StrategyRank(calls[j])
    /\ \A i \in DOMAIN emitted : ~IsError(emitted[i]) => emitted[i]["call"] = Len(calls)

\* C10: the k-th chunk emitted from a response iterator is the normalized
\* k-th element pulled, from the same response; the elements are pulled in
\* the order the transport delivered them; at most one element has been
\* pulled and not yet emitted, and none is left behind when chat_stream goes
\* on to anything else or ends.
C10_ChunkOrder ==
    LET streamed == SelectSeq(emitted, IsStreamed)
    IN  /\ Len(streamed) <= Len(received)
        /\ Len(received) <= Len(streamed) + 1
        /\ Len(received) = Len(streamed) + 1 => (cpc = "yield" /\ piece = <<received[Len(received)]["piece"]>>)
        /\ \A k \in 1..Len(streamed) :
              /\ streamed[k]["text"] = safe_extract_text(received[k]["piece"])
              /\ streamed[k]["call"] = received[k]["call"]
        /\ Len(received) <= Len(produced)
        /\ \A k \in 1..Len(received) : received[k] = produced[k]
        /\ cpc \in {"done", "probe", "call"} => Len(streamed) = Len(produced)

C10_Witness ==
    /\ cpc = "done"
    /\ Len(SelectSeq(emitted, IsStreamed)) = 2
    /\ received[1]["piece"] = None
    /\ received[2]["piece"] = PyStr(Str_def)
    /\ received[1]["call"] = received[2]["call"]

-----------------------------------------------------------------------------
(* Claims about _safe_extract_text *)

StartsWith(text, prefix) ==
    Len(text) >= Len(prefix) /\ SubSeq(text, 1, Len(prefix)) = prefix

HasKey(kvs, k) == \E i \in DOMAIN kvs : kvs[i][1] = k

\* C11: the text of a mapping starts with [__STRUCTURED__] exactly when the
\* mapping has one of the keys content, additional_kwargs, response_metadata;
\* a mapping with response_metadata has the prefix; a mapping with none of the
\* three is written as an indented JSON object, each key on a line of its own
\* after two spaces.
C11_StructuredPrefix ==
    (arg["kind"] = "map" /\ ret # <<>>) =>
        LET kvs == arg["items"]
            recognized == \/ HasKey(kvs, K_content)
                          \/ HasKey(kvs, K_additional_kwargs)
                          \/ HasKey(kvs, K_response_metadata)
        IN  /\ StartsWith(ret[1], STRUCTURED_PREFIX) <=> recognized
            /\ HasKey(kvs, K_response_metadata) => StartsWith(ret[1], STRUCTURED_PREFIX)
            /\ ~recognized =>
                  /\ ret[1][1] = "{" /\ ret[1][Len(ret[1])] = "}"
                  /\ \A i \in DOMAIN kvs :
                        Contains(ret[1], Newline \o <<" ", " ", "\"">> \o kvs[i][1] \o <<"\"", ":", " ">>)

C11_Witness ==
    /\ arg = PyDict(<< <<K_id, PyStr(Str_hi)>>, <<K_response_metadata, PyDict(<<>>)>> >>)
    /\ ret # <<>>
    /\ StartsWith(ret[1], STRUCTURED_PREFIX)

\* C12: a string with a fence is returned unchanged; a string without a
\* fence that contains one of the code keywords is returned between a line of
\* fence before it and one after it; a string with no keyword, and not both
\* a newline and a fence, is returned unchanged.
C12_CodeFence ==
    (arg["kind"] = "str" /\ ret # <<>>) =>
        LET text == arg["text"]
            keyword == \E i \in DOMAIN code_keywords : Contains(text, code_keywords[i])
        IN  /\ Contains(text, Fence) => ret[1] = text
            /\ (keyword /\ ~Contains(text, Fence)) =>
                  ret[1] = Fence \o <<"\n">> \o text \o <<"\n">> \o Fence
            /\ (~keyword /\ ~(Contains(text, Newline) /\ Contains(text, Fence))) =>
                  ret[1] = text

C12_Witness ==
    /\ arg = PyStr(Str_def_foo)
    /\ ret = << Fence \o <<"\n">> \o Str_def_foo \o <<"\n">> \o Fence >>

-----------------------------------------------------------------------------
(* Claims about __main__ of the essay workflow *)

\* C13: the combined fallback request is made only after workflow.invoke
\* failed, and then the raw text is printed or the request's own failure
\* leaves __main__ uncaught; the structured record is printed only when
\* workflow.invoke succeeded; a failed invocation is followed by nothing but
\* the fallback request, and nothing follows that request: there is one.
C13_Fallback ==
    /\ [](/\ mainpc \in {"fallback_printed", "raised"} => wf = "failed"
          /\ mainpc = "printed" => wf = "done")
    /\ [][/\ wf = "failed" =>
                /\ mainpc = "invoke"
                /\ mainpc' \in {"fallback_printed", "raised"}
                /\ state' = state /\ execCount' = execCount
          /\ mainpc \notin {"fallback_printed", "raised"}]_vars

\* the last node failed, after the three evaluations had been merged
C13_Witness ==
    /\ mainpc = "fallback_printed"
    /\ wf = "failed"
    /\ tasks["final_evaluation"] = "failed"
    /\ Len(Get(state, "individual_scores", <<>>)) = 3

-----------------------------------------------------------------------------
(* Claims about the chat history file *)

Field(rec, k) == rec["items"][CHOOSE i \in DOMAIN rec["items"] : rec["items"][i][1] = k][2]

\* C18: what load_chats returns after a save_chats that did not fail has the
\* thread ids of the saved chat history, in its order, and for each of them
\* the same title, the same messages in the same order, each with the same
\* keys and values, and the same timestamp; nothing of what the file held
\* before is left.
C18_RoundTrip ==
    (ret["saved"] = "yes" /\ ret["loaded"] # <<>>) =>
        LET saved == arg["items"]
            loaded == ret["loaded"][1]["items"]
        IN  /\ ret["loaded"][1]["kind"] = "map"
            /\ Len(loaded) = Len(saved)
            /\ \A i \in DOMAIN saved :
                  /\ loaded[i][1] = saved[i][1]
                  /\ Field(loaded[i][2], K_title) = Field(saved[i][2], K_title)
                  /\ Field(loaded[i][2], K_timestamp) = Field(saved[i][2], K_timestamp)
                  /\ Field(loaded[i][2], K_messages) = Field(saved[i][2], K_messages)
                  /\ loaded[i][2] = saved[i][2]

C18_Witness ==
    /\ ret["saved"] = "yes"
    /\ ret["file"]["exists"]
    /\ ret["loaded"] # <<>>
    /\ Len(arg["items"]) = 2
    /\ Field(arg["items"][1][2], K_title) = PyStr(Str_quoted)
    /\ Len(Field(arg["items"][2][2], K_messages)["items"]) = 2
    /\ ret["loaded"][1] = arg

-----------------------------------------------------------------------------
(* Claims about the backend without a client *)

\* C15: without langchain_groq the import logs a warning, ends with llm None
\* and does not fail; from then on every call of chat_sync raises the
\* RuntimeError "LLM not initialized (ChatGroq missing)." and every call of
\* chat_stream ends with that message as its only chunk, behind the error
\* marker; neither makes a call on a client.
C15_NoClient ==
    /\ Warn_groq \in warnings => cpc # "aborted" /\ llm = NoClient
    /\ (cpc \notin {"import", "aborted"} /\ ~llm["present"]) => Warn_groq \in warnings
    /\ (cpc \notin {"import", "aborted"} /\ ~llm["present"]) =>
          /\ cpc \in {"ready", "start", "done"}
          /\ calls = <<>>
          /\ (cpc = "done" /\ strat = "sync") =>
                /\ result = [kind |-> "raise", type |-> "RuntimeError",
                             text |-> Msg_not_initialized]
                /\ emitted = <<>>
          /\ (cpc = "done" /\ strat # "sync") =>
                /\ Len(emitted) = 1
                /\ emitted[1]["text"] = STREAM_ERROR_PREFIX \o Msg_not_initialized
                /\ result = NoResult

C15_Witness ==
    /\ Warn_groq \in warnings
    /\ ~llm["present"]
    /\ cpc = "done"
    /\ strat = "sync"
    /\ result["kind"] = "raise"

-----------------------------------------------------------------------------
(* Claims about the order of the dimension evaluations *)

FeedbackKey(n) ==
    CASE n = "evaluate_language" -> "language_feedback"
      [] n = "evaluate_analysis" -> "analysis_feedback"
      [] n = "evaluate_thought" -> "clarity_feedback"

-----------------------------------------------------------------------------
(* Claims about responses that are not iterable *)

\* C19 (as claimed): the candidate methods are called in their fixed order,
\* and the response of a streaming attempt that is not iterable is never
\* iterated nor emitted: whatever chat_stream pulls or yields in strategy 1
\* or in a candidate comes from a response that is iterable.
C19_NonIterable ==
    /\ \A i, j \in DOMAIN calls :
          (i < j /\ calls[i]["strat"] \in {"cand", "candr"} /\ calls[j]["strat"] \in {"cand", "candr"})
              => StrategyRank(calls[i]) <= StrategyRank(calls[j])
    /\ (cpc \in {"iter", "yield"} /\ strat \in {"s1", "cand", "candr"}) => it["mode"] = "live"

-----------------------------------------------------------------------------
(* Claims about _invoke_with_kw_retry *)

\* the keyword an error message names as unexpected, as a set
NamedKeyword(e) == { k \in RetryKwNames \cup {K_stream} : e["msg"] = Msg_unexpected(k) }

\* C20: every call is made with the messages and the stream flag of the
\* caller; a call made after a failed one has the keyword arguments of the
\* failed one, with their values, except the one keyword its TypeError named;
\* a call that failed otherwise, or with a keyword it was not passed, is the
\* last one and its exception is the one raised; the caller's dict stays as
\* it was passed.
C20_RetryFrame ==
    LET log == ret["log"]
        Retryable(i) ==
            /\ log[i]["error"] # <<>>
            /\ log[i]["error"][1]["type"] = "TypeError"
            /\ NamedKeyword(log[i]["error"][1]) \cap DOMAIN log[i]["call"]["kwargs"] # {}
    IN  /\ ret["caller"] = arg["invoke_kwargs"]
        /\ \A i \in DOMAIN log :
              /\ log[i]["call"]["messages"] = arg["messages"]
              /\ log[i]["call"]["stream"] = arg["stream_flag"]
        /\ Len(log) >= 1 => log[1]["call"]["kwargs"] = arg["invoke_kwargs"]
        /\ \A i \in DOMAIN log : i < Len(log) =>
              LET before == log[i]["call"]["kwargs"]
                  after == log[i + 1]["call"]["kwargs"]
              IN  /\ Retryable(i)
                  /\ DOMAIN after = DOMAIN before \ NamedKeyword(log[i]["error"][1])
                  /\ Cardinality(DOMAIN before \ DOMAIN after) = 1
                  /\ \A k \in DOMAIN after : after[k] = before[k]
        /\ \A i \in DOMAIN log :
              (log[i]["error"] # <<>> /\ ~Retryable(i)) =>
                  /\ i = Len(log)
                  /\ ret["end"] = "raised"
                  /\ ret["value"] = log[i]["error"][1]
        /\ ret["end"] = "raised" => (log # <<>> /\ ~Retryable(Len(log)))

\* two retries, each dropping one keyword of three, then a result
C20_Witness ==
    /\ ret["end"] = "returned"
    /\ Len(ret["log"]) = 3
    /\ DOMAIN arg["invoke_kwargs"] = RetryKwNames
    /\ DOMAIN ret["log"][3]["call"]["kwargs"] = {K_stop}
    /\ arg["stream_flag"]

\* C21: called with n keyword arguments, _invoke_with_kw_retry calls
\* invoke_fn at most n + 1 times; every retry is made with strictly fewer
\* keyword arguments than the call before it, so that after k calls at most
\* n - k are left; and once n + 1 calls are made it has returned or raised.
C21_BoundedCalls ==
    LET n == Cardinality(DOMAIN arg["invoke_kwargs"])
        log == ret["log"]
    IN  /\ Len(log) <= n + 1
        /\ \A i \in DOMAIN log : i < Len(log) =>
              /\ DOMAIN log[i + 1]["call"]["kwargs"] \subseteq DOMAIN log[i]["call"]["kwargs"]
              /\ DOMAIN log[i + 1]["call"]["kwargs"] # DOMAIN log[i]["call"]["kwargs"]
        /\ ret["end"] = "running" => Cardinality(DOMAIN ret["local"]["dict"]) <= n - Len(log)
        /\ Len(log) = n + 1 => ret["end"] \in {"returned", "raised"}

\* three keyword arguments, each refused in turn, and a fourth call that raises
C21_Witness ==
    /\ Cardinality(DOMAIN arg["invoke_kwargs"]) = 3
    /\ Len(ret["log"]) = 4
    /\ ret["end"] = "raised"
    /\ ret["log"][4]["call"]["kwargs"] = [k \in {} |-> "v"]

\* the title of the conversation with this first user message
FirstUserTitle(record) ==
    LET ms == Lookup(record["items"], K_messages)["items"]
        users == SelectSeq(ms, LAMBDA m : Lookup(m["items"], K_role) = PyStr(Str_user))
    IN  IF users = <<>> THEN <<>>
        ELSE <<ChatTitle(Lookup(users[1]["items"], K_content)["text"])>>

\* C14: once a request is handled, a stream that ended with an error chunk
\* has its error recorded and shown and the synchronous fallback run, and
\* the text accumulated so far is not saved as the reply of the assistant.
C14_ErrorChunkHandled ==
    (fpc = "idle" /\ outcome["error"] # <<>>) =>
        /\ session_state["last_stream_error"] = outcome["error"]
        /\ outcome["shown"]
        /\ outcome["sync"] # "no"
        /\ outcome["saved"] # "stream"

\* C17: the title of every conversation in chat_history is the first user
\* message of that conversation, cut to 60 characters with "..." after it
\* when it is longer, whatever was sent later.
C17_TitleFromFirstMessage ==
    fpc = "idle" =>
        \A i \in DOMAIN session_state["chat_history"] :
            LET record == session_state["chat_history"][i][2]
            IN  FirstUserTitle(record) # <<>> =>
                    Lookup(record["items"], K_title) = PyStr(FirstUserTitle(record)[1])

-----------------------------------------------------------------------------
(* Claims about the handling of an input in the frontend *)

Role(m) == Lookup(m["items"], K_role)["text"]
EndsWithAssistant(ms) == ms # <<>> /\ Role(ms[Len(ms)]) = Str_assistant
RecordMessages(ss, id) == Lookup(Lookup(ss["chat_history"], id)["items"], K_messages)["items"]
OneMore(before, after, role) ==
    /\ Len(after) = Len(before) + 1
    /\ SubSeq(after, 1, Len(before)) = before
    /\ Role(after[Len(after)]) = role

\* the step that takes the input appends one user message
SubmitAppendsUser ==
    (fpc = "idle" /\ fpc' = "stream") =>
        OneMore(session_state["message_history"], session_state'["message_history"], Str_user)

\* no message is added while the chunks are read
StreamAppendsNothing ==
    (fpc = "stream") => session_state'["message_history"] = session_state["message_history"]

\* the step that ends the request appends one assistant message and saves the
\* conversation under its thread id when the stream had no error or the
\* fallback returned, and leaves both as they were otherwise
FinalizeAppendsReply ==
    (fpc = "finalize" /\ fpc' = "idle") =>
        IF outcome["error"] = <<>> \/ outcome'["sync"] = "ret"
        THEN /\ OneMore(session_state["message_history"], session_state'["message_history"],
                        Str_assistant)
             /\ session_state["thread_id"] \in Keys(session_state'["chat_history"])
             /\ RecordMessages(session_state', session_state["thread_id"])
                    = session_state'["message_history"]
        ELSE /\ session_state'["message_history"] = session_state["message_history"]
             /\ session_state'["chat_history"] = session_state["chat_history"]

\* between requests every record of chat_history ends with an assistant message
RecordsEndWithAssistant(ss) ==
    \A i \in DOMAIN ss["chat_history"] :
        EndsWithAssistant(RecordMessages(ss, ss["chat_history"][i][1]))

\* C22: an input appends exactly one user message and, after it, at most one
\* assistant message; the assistant message is appended and the conversation
\* saved in chat_history exactly when the stream ended without a stream error
\* or the synchronous fallback returned; so every record of chat_history ends
\* with an assistant message.
C22_OneExchange ==
    [][/\ SubmitAppendsUser
       /\ StreamAppendsNothing
       /\ FinalizeAppendsReply
       /\ fpc' = "idle" => RecordsEndWithAssistant(session_state')]_vars

====
